---- MODULE Spec2Model ----
(***************************************************************************)
(* Proof packaging pipeline of the UltraHonk Soroban demo:                 *)
(* NoirService.encodePublicInputs (field encoder) and                      *)
(* NoirService.buildProofBlob (blob assembler), src/src/services/          *)
(* NoirService.ts.                                                         *)
(*                                                                         *)
(* Bytes are the naturals 0..255 and a Uint8Array is a sequence of bytes   *)
(* (index k of the typed array is index k+1 here).  A JavaScript BigInt    *)
(* n >= 0 is modelled by its base-256 digits, least significant first and  *)
(* without leading zero digits, so that values up to 2^256 and beyond fit: *)
(* n & 0xff is the first digit and n >> 8 drops it.                        *)
(***************************************************************************)
EXTENDS Integers, Sequences, FiniteSets, TLC

VARIABLES circuit,     \* compiled circuit: [abi |-> [parameters |-> <<...>>]]
          inputs,      \* input map: parameter name -> supplied value
          pc,          \* position of the caller in the pipeline
          encOut,      \* outcome of the last encodePublicInputs call
          altInputs,   \* input map of the second encodePublicInputs call
          altOut,      \* outcome of the second encodePublicInputs call
          pubIn,       \* publicInputsBytes handed to buildProofBlob
          proofIn,     \* proofBytes handed to buildProofBlob
          blobOut,     \* outcome of buildProofBlob
          circuit2,    \* the circuit of a second call, its ABI reordered
          pubIn2,      \* publicInputsBytes of a second buildProofBlob call
          proofIn2,    \* proofBytes of a second buildProofBlob call
          blobOut2,    \* outcome of the second buildProofBlob call
          heap,        \* the Uint8Array buffers that exist, by address
          refs,        \* the addresses the caller holds: pub, proof, blob
          calls,       \* the calls made so far, in order
          genOut,      \* outcome of NoirService.generateProof
          vkOut,       \* outcome of the last NoirService.loadVk call
          ui,          \* the Sudoku component: wallet, output, submission
          harness,     \* main of test_real_proof.js: the two tests and the exit
          stellar,     \* a StellarService.verifyProof call
          sudoku,      \* the grid of the Sudoku component and its generator
          pool,        \* PrizePoolProvider: requests in flight, isLoading
          sub,         \* a useSubscription effect: timers, polls, cleanup
          front        \* the frontend variant of NoirService.generateProof

\* the variables of a single pass through the pipeline
pipeVars == <<circuit, inputs, pc, encOut, altInputs, altOut, pubIn, proofIn, blobOut>>

\* the variables of a second call compared with the first
twoVars == <<circuit2, pubIn2, proofIn2, blobOut2>>

\* the buffers as objects: what each reference points to
frameVars == <<heap, refs>>

\* the generateProof flow and the component that starts it
genVars == <<calls, genOut, vkOut, ui>>

\* the other parts of the application, one variable each
appVars == <<harness, stellar, sudoku, pool, sub, front>>

\* the variables the pipeline never touches
extVars == <<twoVars, frameVars, genVars, appVars>>

vars == <<pipeVars, extVars>>

----------------------------------------------------------------------------
(* Bounds of the model *)

MaxParams == 2         \* parameters per generated ABI
MaxArrLen == 2         \* declared and supplied array lengths
MaxProofChunks == 2    \* proof lengths are 0..MaxProofChunks*16 in steps of 16

(* Program constants *)

FieldBytes == 32       \* new Uint8Array(32)
SudokuCells == 81      \* puzzle: pub [Field; 81]

----------------------------------------------------------------------------
(* Bytes and BigInt *)

Byte == 0..255

Zeros(n) == [i \in 1..n |-> 0]

RECURSIVE BigOfNat(_)
\* the BigInt of a small natural: its base-256 digits, low digit first
BigOfNat(n) == IF n = 0 THEN <<>> ELSE <<n % 256>> \o BigOfNat(n \div 256)

\* 2^(8*k) - 1 and 2^(8*k)
BigMax(k) == [i \in 1..k |-> 255]
BigPow(k) == [i \in 1..(k + 1) |-> IF i = k + 1 THEN 1 ELSE 0]

\* val & BigInt(0xff), as a Number
AndFF(val) == IF val = <<>> THEN 0 ELSE Head(val)

\* val >> BigInt(8)
Shr8(val) == IF val = <<>> THEN <<>> ELSE Tail(val)

\* digit i (from 0) of a BigInt, i.e. (val >> 8*i) & 0xff
Digit(val, i) == IF i + 1 <= Len(val) THEN val[i + 1] ELSE 0

\* big-endian reading of a byte string as a BigInt
RECURSIVE stripZeros(_)
stripZeros(bs) ==
  IF bs = <<>> THEN <<>>
  ELSE IF Head(bs) = 0 THEN stripZeros(Tail(bs)) ELSE bs
reverse(bs) == [i \in 1..Len(bs) |-> bs[Len(bs) + 1 - i]]
decodeBE(bs) == reverse(stripZeros(bs))

----------------------------------------------------------------------------
(* Supplied values: undefined, a numeric scalar, or an array of scalars *)

Undefined == [tag |-> "undefined", big |-> <<>>, elems |-> <<>>]
Num(b)    == [tag |-> "number", big |-> b, elems |-> <<>>]
Arr(es)   == [tag |-> "array", big |-> <<>>, elems |-> es]

\* BigInt(value): TypeError for undefined; an array is converted through its
\* string form ([] is "", [x] is String(x), longer ones hold a comma)
BigIntOf(value) ==
  CASE value.tag = "number" -> [status |-> "ok", big |-> value.big]
    [] value.tag = "undefined" -> [status |-> "TypeError", big |-> <<>>]
    [] value.tag = "array" ->
         IF Len(value.elems) = 0 THEN [status |-> "ok", big |-> <<>>]
         ELSE IF Len(value.elems) = 1
              THEN [status |-> "ok", big |-> value.elems[1].big]
              ELSE [status |-> "SyntaxError", big |-> <<>>]

----------------------------------------------------------------------------
(* Circuit ABI *)

\* p.type of a parameter: kind, width (0 when the kind carries none), length
\* and element type p.type.type (of arrays)
NoElem == [kind |-> "none", width |-> 0]
IntegerType(w) == [kind |-> "integer", width |-> w, length |-> 0, type |-> NoElem]
FieldType == [kind |-> "field", width |-> 0, length |-> 0, type |-> NoElem]
ArrayType(elem, n) ==
  [kind |-> "array", width |-> 0, length |-> n,
   type |-> [kind |-> elem.kind, width |-> elem.width]]
OtherType(k) == [kind |-> k, width |-> 0, length |-> 0, type |-> NoElem]

Param(n, v, t) == [name |-> n, visibility |-> v, type |-> t]

----------------------------------------------------------------------------
(* NoirService.encodePublicInputs *)

RECURSIVE writeBytes(_, _, _, _)
\* for (let i = 0; i < numBytes; i++) { field[32 - 1 - i] = Number(val & 0xff);
\*                                      val = val >> 8 }, from iteration i on
writeBytes(field, val, i, numBytes) ==
  IF i < numBytes
  THEN writeBytes([field EXCEPT ![FieldBytes - i] = AndFF(val)], Shr8(val),
                  i + 1, numBytes)
  ELSE field

\* the integer loop writing field[i], least significant byte first
integerLoopLittleEndian(bigIntValue, width) ==
  reverse(writeBytes(Zeros(FieldBytes), bigIntValue, 0, width \div 8))

\* the loop of an integer of `width` bits: numBytes = width / 8
integerLoop(bigIntValue, width) ==
  writeBytes(Zeros(FieldBytes), bigIntValue, 0, width \div 8)

\* the field loop stopping after 16 bytes
fieldLoopHalf(bigIntValue) ==
  writeBytes(Zeros(FieldBytes), bigIntValue, 0, 16)

\* the loop of every other element: all 32 bytes
fieldLoop(bigIntValue) ==
  writeBytes(Zeros(FieldBytes), bigIntValue, 0, FieldBytes)

\* encodeField with a range check: an integer that does not fit its width
\* is rejected
encodeFieldChecked(value, elementType, width) ==
  LET conv == BigIntOf(value) IN
  IF conv.status # "ok" THEN [status |-> conv.status, field |-> <<>>]
  ELSE IF elementType = "integer" /\ width # 0
       THEN IF Len(conv.big) > width \div 8
            THEN [status |-> "RangeError", field |-> <<>>]
            ELSE [status |-> "ok", field |-> integerLoop(conv.big, width)]
       ELSE [status |-> "ok", field |-> fieldLoop(conv.big)]

\* encodeField(value, elementType, width): the 32-byte field, or the error
\* BigInt(value) throws
encodeField(value, elementType, width) ==
  LET conv == BigIntOf(value) IN
  IF conv.status # "ok" THEN [status |-> conv.status, field |-> <<>>]
  ELSE IF elementType = "integer" /\ width # 0
       THEN [status |-> "ok", field |-> integerLoop(conv.big, width)]
       ELSE [status |-> "ok", field |-> fieldLoop(conv.big)]

\* one field per array parameter: only the first element is pushed
encodeFirstElement(inputValue, elementType, elementWidth, fields) ==
  IF Len(inputValue.elems) = 0 THEN [status |-> "ok", fields |-> fields]
  ELSE LET f == encodeField(inputValue.elems[1], elementType, elementWidth) IN
       IF f.status # "ok" THEN [status |-> f.status, fields |-> fields]
       ELSE [status |-> "ok", fields |-> Append(fields, f.field)]

\* inputValue.forEach(element => publicInputFields.push(encodeField(...))):
\* the elements are encoded in index order and pushed until one throws
encodeElements(inputValue, elementType, elementWidth, fields) ==
  LET n == Len(inputValue.elems)
      enc == [k \in 1..n |-> encodeField(inputValue.elems[k], elementType, elementWidth)]
      bad == {k \in 1..n : enc[k].status # "ok"}
  IN IF bad = {}
     THEN [status |-> "ok", fields |-> fields \o [k \in 1..n |-> enc[k].field]]
     ELSE LET first == CHOOSE k \in bad : \A j \in bad : k <= j IN
          [status |-> enc[first].status,
           fields |-> fields \o [k \in 1..(first - 1) |-> enc[k].field]]

\* the parameter body without the length check: the elements supplied are
\* encoded, however many
encodeParamNoLengthCheck(p, inputValue, fields) ==
  IF p.type.kind = "array"
  THEN IF inputValue.tag # "array"
       THEN [status |-> "ExpectedArray", fields |-> fields]
       ELSE encodeElements(inputValue, p.type.type.kind, p.type.type.width,
                           fields)
  ELSE IF p.type.kind = "integer" \/ p.type.kind = "field"
       THEN LET f == encodeField(inputValue, p.type.kind, p.type.width) IN
            IF f.status # "ok" THEN [status |-> f.status, fields |-> fields]
            ELSE [status |-> "ok", fields |-> Append(fields, f.field)]
       ELSE [status |-> "UnsupportedType", fields |-> fields]

\* the parameter body with an unknown kind pushed as one all-zero field
encodeParamLenient(p, inputValue, fields) ==
  IF p.type.kind = "array"
  THEN IF inputValue.tag # "array"
       THEN [status |-> "ExpectedArray", fields |-> fields]
       ELSE IF Len(inputValue.elems) # p.type.length
            THEN [status |-> "ArrayLengthMismatch", fields |-> fields]
            ELSE encodeElements(inputValue, p.type.type.kind, p.type.type.width,
                                fields)
  ELSE IF p.type.kind = "integer" \/ p.type.kind = "field"
       THEN LET f == encodeField(inputValue, p.type.kind, p.type.width) IN
            IF f.status # "ok" THEN [status |-> f.status, fields |-> fields]
            ELSE [status |-> "ok", fields |-> Append(fields, f.field)]
       ELSE [status |-> "ok", fields |-> Append(fields, Zeros(FieldBytes))]

\* the body of publicParams.forEach for one parameter p: publicInputFields
\* after it, or the error thrown
encodeParam(p, inputValue, fields) ==
  IF p.type.kind = "array"
  THEN IF inputValue.tag # "array"
       THEN [status |-> "ExpectedArray", fields |-> fields]
       ELSE IF Len(inputValue.elems) # p.type.length
            THEN [status |-> "ArrayLengthMismatch", fields |-> fields]
            ELSE encodeElements(inputValue, p.type.type.kind, p.type.type.width,
                                fields)
  ELSE IF p.type.kind = "integer"
       THEN LET f == encodeField(inputValue, "integer", p.type.width) IN
            IF f.status # "ok" THEN [status |-> f.status, fields |-> fields]
            ELSE [status |-> "ok", fields |-> Append(fields, f.field)]
       ELSE IF p.type.kind = "field"
            THEN LET f == encodeField(inputValue, "field", 0) IN
                 IF f.status # "ok" THEN [status |-> f.status, fields |-> fields]
                 ELSE [status |-> "ok", fields |-> Append(fields, f.field)]
            ELSE [status |-> "UnsupportedType", fields |-> fields]

\* alphabetical order of the parameter names of the model
NameOrder == <<"a", "b", "c", "count", "d", "puzzle", "solution">>

\* the public parameters re-sorted by name
publicParamsByName(c) ==
  LET pub == SelectSeq(c.abi.parameters, LAMBDA p : p.visibility = "public")
      rank(x) == Cardinality({k \in 1..Len(NameOrder) :
                   \E j \in 1..Len(NameOrder) :
                     NameOrder[j] = x.name /\ k <= j})
  IN [i \in 1..Len(pub) |->
        CHOOSE x \in {pub[k] : k \in 1..Len(pub)} :
          Cardinality({y \in {pub[k] : k \in 1..Len(pub)} : rank(y) < rank(x)}) = i - 1]

\* no visibility filter: every parameter is encoded
allParamsOf(c) == c.abi.parameters

\* circuit.abi.parameters.filter(p => p.visibility === 'public')
publicParamsOf(c) ==
  SelectSeq(c.abi.parameters, LAMBDA p : p.visibility = "public")

RECURSIVE encodeParams(_, _, _, _)
\* publicParams.forEach(...) from parameter k on
encodeParams(publicParams, ins, k, fields) ==
  IF k > Len(publicParams) THEN [status |-> "ok", fields |-> fields]
  ELSE LET r == encodeParam(publicParams[k], ins[publicParams[k].name], fields) IN
       IF r.status # "ok" THEN r
       ELSE encodeParams(publicParams, ins, k + 1, r.fields)

\* publicInputsBytes.set(field, i * 32) for every field i
concatFields(fields) ==
  [b \in 1..(Len(fields) * FieldBytes) |->
     fields[((b - 1) \div FieldBytes) + 1][((b - 1) % FieldBytes) + 1]]

\* The outcome of a call: "ok" with the returned bytes, or the error thrown,
\* in which case nothing is returned (returned = FALSE) and `fields` keeps
\* the fields pushed before the throw, which the caller never sees.
encodePublicInputs(c, ins) ==
  LET r == encodeParams(publicParamsOf(c), ins, 1, <<>>) IN
  IF r.status = "ok"
  THEN [status |-> "ok", returned |-> TRUE, bytes |-> concatFields(r.fields),
        fields |-> r.fields]
  ELSE [status |-> r.status, returned |-> FALSE, bytes |-> <<>>,
        fields |-> r.fields]

\* the error kinds of the design: a value of the wrong shape for an array
ShapeMismatch == {"ExpectedArray", "ArrayLengthMismatch"}

----------------------------------------------------------------------------
(* NoirService.buildProofBlob *)

\* totalFields = proofBytes.length / 32 + publicInputsBytes.length / 32, a
\* JavaScript Number that is fractional for unaligned lengths; kept here in
\* units of 1/32 (both quotients are exact in binary floating point)
totalFields32(publicInputsBytes, proofBytes) ==
  Len(proofBytes) + Len(publicInputsBytes)

\* the header written least significant byte first
setUint32LE(total32) ==
  LET u == total32 \div 32 IN
  <<u % 256, (u \div 256) % 256, (u \div 65536) % 256, (u \div 16777216) % 256>>

\* view.setUint32(0, totalFields, false) on a fresh 4-byte header: ToUint32
\* drops the fraction, then the 4 bytes are written most significant first
\* (the reduction modulo 2^32 never acts on the buffer lengths of the model)
setUint32BE(total32) ==
  LET u == total32 \div 32 IN
  <<(u \div 16777216) % 256, (u \div 65536) % 256, (u \div 256) % 256, u % 256>>

\* target.set(source, offset) of typed arrays
setAt(target, source, offset) ==
  [i \in 1..Len(target) |->
     IF i > offset /\ i <= offset + Len(source) THEN source[i - offset]
     ELSE target[i]]

\* the proof written at the offset of the public inputs
assembleBlobOverlap(header, publicInputsBytes, proofBytes) ==
  LET empty == Zeros(Len(header) + Len(publicInputsBytes) + Len(proofBytes))
      b1 == setAt(empty, header, 0)
      b2 == setAt(b1, publicInputsBytes, Len(header))
  IN setAt(b2, proofBytes, Len(header))

\* header || publicInputs || proof
assembleBlob(header, publicInputsBytes, proofBytes) ==
  LET empty == Zeros(Len(header) + Len(publicInputsBytes) + Len(proofBytes))
      b1 == setAt(empty, header, 0)
      b2 == setAt(b1, publicInputsBytes, Len(header))
  IN setAt(b2, proofBytes, Len(header) + Len(publicInputsBytes))

RECURSIVE weightedSum(_, _, _)
weightedSum(msg, lo, hi) ==
  IF lo > hi THEN 0
  ELSE IF lo = hi THEN msg[lo] * ((lo % 13) + 1)
       ELSE LET mid == (lo + hi) \div 2 IN
            weightedSum(msg, lo, mid) + weightedSum(msg, mid + 1, hi)

\* keccak_256 of @noble/hashes, an external library: a deterministic map from
\* byte strings to 32-byte digests.  The permutation itself is outside this
\* repository; a fixed mixing function stands in for it.
keccak_256(msg) ==
  LET w == weightedSum(msg, 1, Len(msg))
      n == Len(msg)
  IN [j \in 1..32 |-> (w * (2 * j + 1) + n * 31 + j * j * 7 + 99) % 256]

HexChars == <<"0", "1", "2", "3", "4", "5", "6", "7", "8", "9",
              "a", "b", "c", "d", "e", "f">>

\* b.toString(16): no leading zero
toString16(b) ==
  IF b < 16 THEN <<HexChars[b + 1]>>
  ELSE <<HexChars[(b \div 16) + 1], HexChars[(b % 16) + 1]>>

\* no padding
noPad(s) == s

\* s.padStart(2, '0')
padStart2(s) == IF Len(s) < 2 THEN <<"0">> \o s ELSE s

RECURSIVE join(_)
\* strs.join('')
join(strs) == IF strs = <<>> THEN <<>> ELSE Head(strs) \o join(Tail(strs))

\* Array.from(proofIdBytes).map(b => b.toString(16).padStart(2, '0')).join('')
hexOf(digest) == join([i \in 1..Len(digest) |-> padStart2(toString16(digest[i]))])

\* the bytes keccak_256 is applied to
hashedBytes(proofBlob) == proofBlob

\* the digest taken before the proof bytes are copied into the blob
buildProofBlobHashEarly(publicInputsBytes, proofBytes) ==
  LET header == setUint32BE(totalFields32(publicInputsBytes, proofBytes))
      proofBlob == assembleBlob(header, publicInputsBytes, proofBytes)
      early == assembleBlob(header, publicInputsBytes, Zeros(Len(proofBytes)))
  IN [proofBlob |-> proofBlob, proofId |-> hexOf(keccak_256(hashedBytes(early)))]

buildProofBlob(publicInputsBytes, proofBytes) ==
  LET header == setUint32BE(totalFields32(publicInputsBytes, proofBytes))
      proofBlob == assembleBlob(header, publicInputsBytes, proofBytes)
      proofIdBytes == keccak_256(hashedBytes(proofBlob))
  IN [proofBlob |-> proofBlob, proofId |-> hexOf(proofIdBytes)]

NoBlob == [proofBlob |-> <<>>, proofId |-> <<>>]
NoOut == [status |-> "none", returned |-> FALSE, bytes |-> <<>>, fields |-> <<>>]

----------------------------------------------------------------------------
(* The inputs the model draws *)

Widths == {8, 16, 32, 64, 128}

\* names by ABI position, deliberately not in alphabetical order
NameAt(i) == <<"c", "a", "d", "b">>[i]

Slot(v, t, x) == [visibility |-> v, type |-> t, value |-> x]

\* 0, 0x1234, 256, 2^64 - 1, 2^64, 2^128 - 1, 2^256 - 1
ScalarValues ==
  {Num(BigOfNat(0)), Num(BigOfNat(4660)), Num(BigOfNat(256)),
   Num(BigMax(8)), Num(BigPow(8)), Num(BigMax(16)), Num(BigMax(32))}

ScalarTypes == {IntegerType(w) : w \in Widths} \cup {FieldType}

\* 0x1234 and 2^256 - 1
ElemValues == {Num(BigOfNat(4660)), Num(BigMax(32))}

ArraysOfLen(n) == {Arr(es) : es \in [1..n -> ElemValues]}

ArrayValues == UNION {ArraysOfLen(n) : n \in 0..MaxArrLen}

ArrayTypes ==
  {ArrayType(e, n) : e \in {FieldType, IntegerType(8), IntegerType(16)},
                     n \in 1..MaxArrLen}

\* the parameter under study: public, of any type, with any value
FocusSlots ==
  {Slot("public", t, x) : t \in ScalarTypes, x \in ScalarValues \cup {Undefined}}
  \cup {Slot("public", t, x) :
          t \in ArrayTypes, x \in ArrayValues \cup {Undefined, Num(BigOfNat(5))}}
  \cup {Slot("public", OtherType(k), Num(BigOfNat(1))) : k \in {"boolean", "struct"}}

\* the parameters around it
ContextSlots ==
  {Slot("public", FieldType, Num(BigOfNat(5))),
   Slot("public", OtherType("boolean"), Num(BigOfNat(1))),
   Slot("private", OtherType("boolean"), Num(BigOfNat(7))),
   Slot("private", ArrayType(FieldType, 1), Arr(<<Num(BigOfNat(9))>>))}

GeneratedCases ==
  UNION {UNION {{[params |-> [i \in 1..n |->
                               LET sl == IF i = f THEN focus ELSE ctx[i]
                               IN Param(NameAt(i), sl.visibility, sl.type)],
                  ins |-> [nm \in {NameAt(i) : i \in 1..n} |->
                             LET i == CHOOSE k \in 1..n : NameAt(k) = nm
                             IN IF i = f THEN focus.value ELSE ctx[i].value]]
                   : focus \in FocusSlots,
                     ctx \in [(1..n) \ {f} -> ContextSlots]}
                : f \in 1..n}
         : n \in 1..MaxParams}

\* the Sudoku circuit and the two-parameter scenario built on it
PuzzleType == ArrayType(FieldType, SudokuCells)
ZeroPuzzle == Arr([i \in 1..SudokuCells |-> Num(<<>>)])
DigitPuzzle == Arr([i \in 1..SudokuCells |-> Num(BigOfNat(i % 10))])

SudokuCases ==
  {[params |-> <<Param("puzzle", "public", PuzzleType),
                 Param("solution", "private", PuzzleType)>>,
    ins |-> [nm \in {"puzzle", "solution"} |->
               IF nm = "puzzle" THEN pz ELSE DigitPuzzle]] : pz \in {ZeroPuzzle, DigitPuzzle}}
  \cup
  {[params |-> <<Param("puzzle", "public", PuzzleType),
                 Param("count", "public", IntegerType(32))>>,
    ins |-> [nm \in {"puzzle", "count"} |->
               IF nm = "puzzle" THEN ZeroPuzzle ELSE Num(BigOfNat(5))]],
   [params |-> <<Param("puzzle", "public", PuzzleType)>>,
    ins |-> [nm \in {"puzzle"} |-> DigitPuzzle]]}

EmptyCase == [params |-> <<>>, ins |-> <<>>]

Cases == GeneratedCases \cup SudokuCases \cup {EmptyCase}

\* proof bytes of the external prover: all zero (the dummy proof of the
\* component) or patterned, of aligned and unaligned lengths
ProofLens == {16 * k : k \in 0..MaxProofChunks}
Proofs ==
  {Zeros(m) : m \in ProofLens} \cup {[i \in 1..m |-> (i * 37 + 11) % 256] : m \in ProofLens}

\* raw public-input buffers handed to buildProofBlob directly
RawPublicInputs ==
  {[i \in 1..m |-> (i * 101 + 3) % 256] : m \in {0, 8, 32, 48, 64}}

\* values a caller may put on private parameters
AltValues == {Undefined, Num(BigOfNat(77)), Arr(<<>>), Arr(<<Num(BigOfNat(1)), Num(BigOfNat(2))>>)}

privateNames(c) ==
  {c.abi.parameters[i].name :
     i \in {k \in 1..Len(c.abi.parameters) : c.abi.parameters[k].visibility # "public"}}

\* the input maps that agree with ins on every public parameter
PrivateVariants(c, ins) ==
  {[nm \in DOMAIN ins |-> IF nm \in privateNames(c) THEN g[nm] ELSE ins[nm]] :
     g \in [privateNames(c) -> AltValues]}

----------------------------------------------------------------------------
(* The callers *)

NoCircuit == [abi |-> [parameters |-> <<>>]]

\* no second call was made
TwoIdle ==
  /\ circuit2 = NoCircuit
  /\ pubIn2 = <<>>
  /\ proofIn2 = <<>>
  /\ blobOut2 = NoBlob

NoRefs == [pub |-> 0, proof |-> 0, blob |-> 0]

\* no buffer is tracked by address
FrameIdle ==
  /\ heap = <<>>
  /\ refs = NoRefs

NoResult ==
  [proof |-> <<>>, publicInputs |-> <<>>, proofBlob |-> <<>>, vkJson |-> <<>>,
   proofId |-> <<>>]

NoGen == [status |-> "none", error |-> "none", result |-> NoResult]

NoVk == [status |-> "none", ok |-> FALSE, error |-> "none", bytes |-> <<>>]

\* the arguments of a verify_puzzle call
NoSent == [vk_json |-> <<>>, public_inputs |-> <<>>, proof_blob |-> <<>>]

NoUi ==
  [caller |-> "none", wallet |-> FALSE, isGenerating |-> FALSE,
   noirError |-> "none", outputText |-> "none", output |-> "none",
   submitted |-> "none", sent |-> NoSent]

\* a part of the application that is not running
Idle == [pc |-> "idle"]

AppIdle ==
  /\ harness = Idle
  /\ stellar = Idle
  /\ sudoku = Idle
  /\ pool = Idle
  /\ sub = Idle
  /\ front = Idle

\* generateProof is not running
GenIdle ==
  /\ calls = <<>>
  /\ genOut = NoGen
  /\ vkOut = NoVk
  /\ ui = NoUi

Init ==
  /\ \/ \E cs \in Cases :
          /\ circuit = [abi |-> [parameters |-> cs.params]]
          /\ inputs = cs.ins
          /\ pubIn = <<>>
          /\ proofIn = <<>>
          /\ pc = "start"
     \/ \E pub \in RawPublicInputs, prf \in Proofs :
          /\ circuit = [abi |-> [parameters |-> <<>>]]
          /\ inputs = <<>>
          /\ pubIn = pub
          /\ proofIn = prf
          /\ pc = "raw"
  /\ encOut = NoOut
  /\ altInputs = <<>>
  /\ altOut = NoOut
  /\ blobOut = NoBlob
  /\ TwoIdle
  /\ FrameIdle
  /\ GenIdle
  /\ AppIdle

\* const publicInputsBytes = this.encodePublicInputs(circuit, inputs)
EncodePublicInputs ==
  /\ pc = "start"
  /\ encOut' = encodePublicInputs(circuit, inputs)
  /\ pc' = "encoded"
  /\ UNCHANGED <<circuit, inputs, altInputs, altOut, pubIn, proofIn, blobOut>>
  /\ UNCHANGED extVars

\* a second call on the same circuit, with other values on private parameters
EncodeAgain ==
  /\ pc = "encoded"
  /\ \E alt \in PrivateVariants(circuit, inputs) :
       /\ altInputs' = alt
       /\ altOut' = encodePublicInputs(circuit, alt)
  /\ pc' = "reencoded"
  /\ UNCHANGED <<circuit, inputs, encOut, pubIn, proofIn, blobOut>>
  /\ UNCHANGED extVars

\* this.buildProofBlob(publicInputsBytes, proofBytes) on the encoder's output
BuildProofBlob ==
  /\ pc = "encoded"
  /\ encOut.returned
  /\ \E prf \in Proofs :
       /\ proofIn' = prf
       /\ pubIn' = encOut.bytes
       /\ blobOut' = buildProofBlob(encOut.bytes, prf)
  /\ pc' = "built"
  /\ UNCHANGED <<circuit, inputs, encOut, altInputs, altOut>>
  /\ UNCHANGED extVars

\* buildProofBlob called on buffers the caller holds
BuildProofBlobRaw ==
  /\ pc = "raw"
  /\ blobOut' = buildProofBlob(pubIn, proofIn)
  /\ pc' = "built"
  /\ UNCHANGED <<circuit, inputs, encOut, altInputs, altOut, pubIn, proofIn>>
  /\ UNCHANGED extVars

Next == EncodePublicInputs \/ EncodeAgain \/ BuildProofBlob \/ BuildProofBlobRaw

Spec == Init /\ [][Next]_vars

----------------------------------------------------------------------------
(* Two calls compared: buildProofBlob on two pairs of buffers of the same
   lengths, and encodePublicInputs on an ABI and on the same ABI with two
   public parameters swapped *)

\* the amounts by which the second call changes one byte
ByteDeltas == {1, 128}

\* bytes with the byte at position k changed by d
changedAt(bytes, k, d) == [bytes EXCEPT ![k] = (bytes[k] + d) % 256]

\* public parameters whose encodings can coincide: a value beyond the width,
\* an array next to a scalar, equal values
PairSlots ==
  {Slot("public", FieldType, Num(BigOfNat(v))) : v \in {0, 5, 256}}
  \cup {Slot("public", IntegerType(8), Num(BigOfNat(v))) : v \in {5, 256}}
  \cup UNION {{Slot("public", ArrayType(FieldType, n),
                     Arr([e \in 1..n |-> Num(BigOfNat(5))])),
                Slot("public", ArrayType(FieldType, n),
                     Arr([e \in 1..n |-> Num(BigOfNat(5 * (e % 2)))]))}
              : n \in 1..MaxArrLen}
  \cup {Slot("public", FieldType, Undefined)}

SwapCases ==
  UNION {{[params |-> [i \in 1..n |->
                         Param(NameAt(i), sl[i].visibility, sl[i].type)],
           ins |-> [nm \in {NameAt(i) : i \in 1..n} |->
                      sl[CHOOSE k \in 1..n : NameAt(k) = nm].value]]
            : sl \in [1..n -> PairSlots]}
         : n \in 2..MaxParams}

\* the parameters with those at positions i and j exchanged
swapParams(ps, i, j) ==
  [k \in 1..Len(ps) |-> IF k = i THEN ps[j] ELSE IF k = j THEN ps[i] ELSE ps[k]]

InitTwo ==
  /\ \/ \E cs \in SwapCases :
          /\ circuit = [abi |-> [parameters |-> cs.params]]
          /\ inputs = cs.ins
          /\ pubIn = <<>>
          /\ proofIn = <<>>
          /\ pc = "start"
     \/ \E pub \in RawPublicInputs, prf \in Proofs :
          /\ circuit = NoCircuit
          /\ inputs = <<>>
          /\ pubIn = pub
          /\ proofIn = prf
          /\ pc = "raw"
  /\ encOut = NoOut
  /\ altInputs = <<>>
  /\ altOut = NoOut
  /\ blobOut = NoBlob
  /\ TwoIdle
  /\ FrameIdle
  /\ GenIdle
  /\ AppIdle

\* a second buildProofBlob call, on buffers of the same lengths that differ
\* from the first pair in one byte of publicInputs or of proof
BuildSecond ==
  /\ pc = "built"
  /\ \E d \in ByteDeltas :
       \/ \E k \in 1..Len(pubIn) :
            /\ pubIn2' = changedAt(pubIn, k, d)
            /\ proofIn2' = proofIn
       \/ \E k \in 1..Len(proofIn) :
            /\ pubIn2' = pubIn
            /\ proofIn2' = changedAt(proofIn, k, d)
  /\ blobOut2' = buildProofBlob(pubIn2', proofIn2')
  /\ pc' = "rebuilt"
  /\ UNCHANGED <<circuit, inputs, encOut, altInputs, altOut, pubIn, proofIn, blobOut>>
  /\ UNCHANGED <<circuit2, frameVars, genVars, appVars>>

\* a second encodePublicInputs call, on the ABI with two public parameters
\* swapped in declaration order and the same inputs
EncodeSwapped ==
  /\ pc = "encoded"
  /\ \E i, j \in 1..Len(circuit.abi.parameters) :
       /\ i < j
       /\ circuit.abi.parameters[i].visibility = "public"
       /\ circuit.abi.parameters[j].visibility = "public"
       /\ circuit2' =
            [abi |-> [parameters |-> swapParams(circuit.abi.parameters, i, j)]]
  /\ altInputs' = inputs
  /\ altOut' = encodePublicInputs(circuit2', inputs)
  /\ pc' = "swapped"
  /\ UNCHANGED <<circuit, inputs, encOut, pubIn, proofIn, blobOut>>
  /\ UNCHANGED <<pubIn2, proofIn2, blobOut2, frameVars, genVars, appVars>>

NextTwo == EncodePublicInputs \/ EncodeSwapped \/ BuildProofBlobRaw \/ BuildSecond

SpecTwo == InitTwo /\ [][NextTwo]_vars

----------------------------------------------------------------------------
(* The buffers as objects.  A Uint8Array is an object the caller and the
   service share by reference: `heap` holds the bytes of every buffer by
   address, and a call reads and writes buffers through their addresses. *)

\* an address that is already in use
reusedAddress(h) == 1

\* the address new Uint8Array(n) gets: one no buffer has yet
newAddress(h) == Len(h) + 1

\* new Uint8Array(n): a zero-filled buffer at a new address
allocate(h, n) ==
  LET a == newAddress(h)
      top == IF a > Len(h) THEN a ELSE Len(h)
  IN [k \in 1..top |-> IF k = a THEN Zeros(n) ELSE h[k]]

\* one parameter, of any type and value, and the Sudoku circuits
FrameCases ==
  {[params |-> <<Param(NameAt(1), sl.visibility, sl.type)>>,
    ins |-> [nm \in {NameAt(1)} |-> sl.value]] : sl \in FocusSlots \cup ContextSlots}
  \cup SudokuCases \cup {EmptyCase}

InitFrame ==
  /\ \/ \E cs \in FrameCases :
          /\ circuit = [abi |-> [parameters |-> cs.params]]
          /\ inputs = cs.ins
          /\ pubIn = <<>>
          /\ proofIn = <<>>
          /\ heap = <<>>
          /\ refs = NoRefs
          /\ pc = "start"
     \/ \E pub \in RawPublicInputs, prf \in Proofs :
          /\ circuit = NoCircuit
          /\ inputs = <<>>
          /\ pubIn = pub
          /\ proofIn = prf
          /\ heap = <<pub, prf>>
          /\ refs = [pub |-> 1, proof |-> 2, blob |-> 0]
          /\ pc = "raw"
  /\ encOut = NoOut
  /\ altInputs = <<>>
  /\ altOut = NoOut
  /\ blobOut = NoBlob
  /\ TwoIdle
  /\ GenIdle
  /\ AppIdle

\* encodePublicInputs(circuit, inputs): on success the bytes are returned in
\* a buffer of their own, new Uint8Array(fields.length * 32)
EncodeOnHeap ==
  /\ pc = "start"
  /\ encOut' = encodePublicInputs(circuit, inputs)
  /\ IF encOut'.returned
     THEN LET a == newAddress(heap)
              h1 == allocate(heap, Len(encOut'.bytes))
          IN /\ heap' = [h1 EXCEPT ![a] = encOut'.bytes]
             /\ refs' = [refs EXCEPT !.pub = a]
             /\ pubIn' = encOut'.bytes
     ELSE UNCHANGED <<heap, refs, pubIn>>
  /\ pc' = "encoded"
  /\ UNCHANGED <<circuit, inputs, altInputs, altOut, proofIn, blobOut, twoVars, genVars, appVars>>

\* the proof bytes of the prover arrive in a buffer of their own
ReceiveProof ==
  /\ pc = "encoded"
  /\ encOut.returned
  /\ \E prf \in Proofs :
       /\ proofIn' = prf
       /\ heap' = [allocate(heap, Len(prf)) EXCEPT ![newAddress(heap)] = prf]
       /\ refs' = [refs EXCEPT !.proof = newAddress(heap)]
  /\ pc' = "raw"
  /\ UNCHANGED <<circuit, inputs, encOut, altInputs, altOut, pubIn, blobOut, twoVars, genVars, appVars>>

\* buildProofBlob(publicInputsBytes, proofBytes) on the buffers at refs.pub
\* and refs.proof: headerBytes and proofBlob are allocated, the header is
\* written into headerBytes, and the three parts are copied into proofBlob
BuildOnHeap ==
  /\ pc = "raw"
  /\ LET hdr == newAddress(heap)
         h1 == allocate(heap, 4)
         h2 == [h1 EXCEPT ![hdr] =
                  setUint32BE(totalFields32(h1[refs.pub], h1[refs.proof]))]
         blob == newAddress(h2)
         h3 == allocate(h2, 4 + Len(h2[refs.pub]) + Len(h2[refs.proof]))
         h4 == [h3 EXCEPT ![blob] =
                  setAt(setAt(setAt(@, h3[hdr], 0), h3[refs.pub], 4),
                        h3[refs.proof], 4 + Len(h3[refs.pub]))]
     IN /\ heap' = h4
        /\ refs' = [refs EXCEPT !.blob = blob]
        /\ blobOut' = [proofBlob |-> h4[blob],
                       proofId |-> hexOf(keccak_256(hashedBytes(h4[blob])))]
  /\ pc' = "built"
  /\ UNCHANGED <<circuit, inputs, encOut, altInputs, altOut, pubIn, proofIn, twoVars, genVars, appVars>>

\* the caller writes into the blob it was returned
WriteBlob ==
  /\ pc = "built"
  /\ \E k \in {1, 5, Len(heap[refs.blob])} \cap (1..Len(heap[refs.blob])) :
       heap' = [heap EXCEPT ![refs.blob][k] = (@ + 1) % 256]
  /\ pc' = "written"
  /\ UNCHANGED <<circuit, inputs, encOut, altInputs, altOut, pubIn, proofIn, blobOut,
                 refs, twoVars, genVars, appVars>>

NextFrame == EncodeOnHeap \/ ReceiveProof \/ BuildOnHeap \/ WriteBlob

SpecFrame == InitFrame /\ [][NextFrame]_vars

----------------------------------------------------------------------------
(* NoirService.generateProof and loadVk, and the Sudoku component's
   generateProof handler that calls them.  Every await is a step; fetch, the
   witness engine, the prover and the contract are external, so each of
   their calls may succeed or fail. *)

\* a VK file of the server
VkBody == <<123, 125>>

\* loadVk on a response that is not ok substituting empty bytes
loadVkPlaceholder(ok, body) ==
  [status |-> "returned", ok |-> ok, error |-> "none",
   bytes |-> IF ok THEN body ELSE <<>>]

\* loadVk(circuitName) after its fetch: throws when !vkResponse.ok, otherwise
\* returns the bytes of the response
loadVk(ok, body) ==
  IF ~ok
  THEN [status |-> "threw", ok |-> ok, error |-> "VkLoad", bytes |-> <<>>]
  ELSE [status |-> "returned", ok |-> ok, error |-> "none", bytes |-> body]

\* the encoder's failure replaced by empty public inputs
encodeOrDefault(c, ins) ==
  LET r == encodePublicInputs(c, ins) IN
  IF r.returned THEN r
  ELSE [status |-> "ok", returned |-> TRUE, bytes |-> <<>>, fields |-> <<>>]

\* const publicInputsBytes = this.encodePublicInputs(circuit, inputs), inside
\* generateProof
encodeStep(c, ins) == encodePublicInputs(c, ins)

\* throw new Error(...) out of generateProof: nothing is returned
threw(kind) == [status |-> "threw", error |-> kind, result |-> NoResult]

\* the outcomes of noir.execute(inputs)
ExecuteOutcomes == {"ok", "ConstraintViolation"}

\* the errors of the encoder and of the configuration
ConfigErrors ==
  {"CircuitLoad", "VkLoad", "ExpectedArray", "ArrayLengthMismatch",
   "UnsupportedType", "TypeError", "SyntaxError"}

\* solution.filter((v) => v === 0).length
emptyCells(solution) ==
  Cardinality({k \in 1..Len(solution.elems) : solution.elems[k].big = <<>>})

\* solution.some((v) => v < 1 || v > 9)
invalidSolution(solution) ==
  \E k \in 1..Len(solution.elems) :
    LET b == solution.elems[k].big IN
    b = <<>> \/ Len(b) > 1 \/ b[1] > 9

\* the grid of the component: 81 cells, filled with 1..9 when complete
CompleteSolution == Arr([i \in 1..SudokuCells |-> Num(BigOfNat((i % 9) + 1))])
OutOfRangeSolution ==
  Arr([i \in 1..SudokuCells |-> Num(BigOfNat(IF i = 3 THEN 10 ELSE (i % 9) + 1))])

Grids ==
  {[puzzle |-> ZeroPuzzle, solution |-> CompleteSolution],
   [puzzle |-> DigitPuzzle, solution |-> CompleteSolution],
   [puzzle |-> DigitPuzzle, solution |-> DigitPuzzle],
   [puzzle |-> ZeroPuzzle, solution |-> OutOfRangeSolution]}

\* /circuits/sudoku.json as the server may hold it: the Sudoku ABI, one with
\* another declared length, one with a public parameter the encoder does not
\* support
SudokuAbis ==
  {<<Param("puzzle", "public", PuzzleType),
     Param("solution", "private", PuzzleType)>>,
   <<Param("puzzle", "public", ArrayType(FieldType, SudokuCells - 1)),
     Param("solution", "private", PuzzleType)>>,
   <<Param("puzzle", "public", PuzzleType),
     Param("solution", "private", PuzzleType),
     Param("count", "public", OtherType("boolean"))>>}

\* { puzzle, solution }: a key that is not there reads as undefined
gridInputs(g) ==
  [nm \in {"puzzle", "solution", "count"} |->
     IF nm = "puzzle" THEN g.puzzle
     ELSE IF nm = "solution" THEN g.solution ELSE Undefined]

\* { puzzle }
puzzleOnly(ins) ==
  [nm \in DOMAIN ins |-> IF nm = "puzzle" THEN ins[nm] ELSE Undefined]

InitGen ==
  /\ \/ \E abi \in SudokuAbis, g \in Grids, w \in BOOLEAN :
          /\ circuit = [abi |-> [parameters |-> abi]]
          /\ inputs = gridInputs(g)
          /\ ui = [NoUi EXCEPT !.caller = "component", !.wallet = w]
          /\ pc = "c_start"
     \/ \E cs \in FrameCases :
          /\ circuit = [abi |-> [parameters |-> cs.params]]
          /\ inputs = cs.ins
          /\ ui = [NoUi EXCEPT !.caller = "direct"]
          /\ pc = "g_fetch"
  /\ pubIn = <<>>
  /\ proofIn = <<>>
  /\ encOut = NoOut
  /\ altInputs = <<>>
  /\ altOut = NoOut
  /\ blobOut = NoBlob
  /\ calls = <<>>
  /\ genOut = NoGen
  /\ vkOut = NoVk
  /\ TwoIdle
  /\ FrameIdle
  /\ AppIdle

\* what no step of the flow writes
genFrame == <<circuit, inputs, twoVars, frameVars, appVars>>

\* the proofs backend.generateProof may return
GenProofs == {prf \in Proofs : Len(prf) = FieldBytes}

\* the handler of the component up to its call of generateProof
ClickGenerate ==
  /\ pc = "c_start"
  /\ IF ~ui.wallet
     THEN /\ ui' = [ui EXCEPT !.output = "connectWallet"]
          /\ pc' = "done"
     ELSE IF emptyCells(inputs["solution"]) > 0
     THEN /\ ui' = [ui EXCEPT !.output = "incomplete"]
          /\ pc' = "done"
     ELSE IF invalidSolution(inputs["solution"])
     THEN /\ ui' = [ui EXCEPT !.output = "invalidValues"]
          /\ pc' = "done"
     ELSE /\ ui' = [ui EXCEPT !.isGenerating = TRUE, !.output = "generating"]
          /\ pc' = "g_fetch"
  /\ UNCHANGED <<encOut, altInputs, altOut, pubIn, proofIn, blobOut, calls, genOut, vkOut>>
  /\ UNCHANGED genFrame

\* const response = await fetch(`/circuits/${circuitName}.json`)
FetchCircuit ==
  /\ pc = "g_fetch"
  /\ calls' = Append(calls, "fetchCircuit")
  /\ \E ok \in BOOLEAN :
       IF ok
       THEN /\ pc' = "g_execute"
            /\ UNCHANGED genOut
       ELSE /\ genOut' = threw("CircuitLoad")
            /\ pc' = "g_done"
  /\ UNCHANGED <<encOut, altInputs, altOut, pubIn, proofIn, blobOut, vkOut, ui>>
  /\ UNCHANGED genFrame

\* const { witness } = await noir.execute(inputs)
NoirExecute ==
  /\ pc = "g_execute"
  /\ calls' = Append(calls, "execute")
  /\ \E o \in ExecuteOutcomes :
       IF o = "ok"
       THEN /\ pc' = "g_prove"
            /\ UNCHANGED genOut
       ELSE /\ genOut' = threw(o)
            /\ pc' = "g_done"
  /\ UNCHANGED <<encOut, altInputs, altOut, pubIn, proofIn, blobOut, vkOut, ui>>
  /\ UNCHANGED genFrame

\* const proof = await backend.generateProof(witness, { keccak: true })
BackendGenerateProof ==
  /\ pc = "g_prove"
  /\ calls' = Append(calls, "prove")
  /\ \/ \E prf \in GenProofs :
          /\ proofIn' = prf
          /\ pc' = "g_encode"
          /\ UNCHANGED genOut
     \/ /\ genOut' = threw("ProverError")
        /\ pc' = "g_done"
        /\ UNCHANGED proofIn
  /\ UNCHANGED <<encOut, altInputs, altOut, pubIn, blobOut, vkOut, ui>>
  /\ UNCHANGED genFrame

\* this.encodePublicInputs(circuit, inputs), then
\* this.buildProofBlob(publicInputsBytes, proofBytes)
EncodeAndBuild ==
  /\ pc = "g_encode"
  /\ LET publicInputsBytes == encodeStep(circuit, inputs) IN
     /\ encOut' = publicInputsBytes
     /\ IF publicInputsBytes.returned
        THEN /\ pubIn' = publicInputsBytes.bytes
             /\ blobOut' = buildProofBlob(publicInputsBytes.bytes, proofIn)
             /\ calls' = calls \o <<"encodePublicInputs", "buildProofBlob">>
             /\ pc' = "g_loadVk"
             /\ UNCHANGED genOut
        ELSE /\ genOut' = threw(publicInputsBytes.status)
             /\ calls' = Append(calls, "encodePublicInputs")
             /\ pc' = "g_done"
             /\ UNCHANGED <<pubIn, blobOut>>
  /\ UNCHANGED <<altInputs, altOut, proofIn, vkOut, ui>>
  /\ UNCHANGED genFrame

\* the proof returned with the public inputs in front of it
generateProofResultWithInputs(proofBytes, publicInputsBytes, built, vkJson) ==
  [proof |-> publicInputsBytes \o proofBytes, publicInputs |-> publicInputsBytes,
   proofBlob |-> built.proofBlob, vkJson |-> vkJson, proofId |-> built.proofId]

\* return { proof: proofBytes, publicInputs: publicInputsBytes, proofBlob,
\* vkJson, proofId, proofTime }
generateProofResult(proofBytes, publicInputsBytes, built, vkJson) ==
  [proof |-> proofBytes, publicInputs |-> publicInputsBytes,
   proofBlob |-> built.proofBlob, vkJson |-> vkJson, proofId |-> built.proofId]

\* const vkJson = await this.loadVk(circuitName), then the return
LoadVkInGenerate ==
  /\ pc = "g_loadVk"
  /\ calls' = calls \o <<"loadVk", "fetchVk">>
  /\ \E ok \in BOOLEAN : vkOut' = loadVk(ok, VkBody)
  /\ genOut' =
       IF vkOut'.status = "threw" THEN threw(vkOut'.error)
       ELSE [status |-> "returned", error |-> "none",
             result |-> generateProofResult(proofIn, pubIn, blobOut, vkOut'.bytes)]
  /\ pc' = "g_done"
  /\ UNCHANGED <<encOut, altInputs, altOut, pubIn, proofIn, blobOut, ui>>
  /\ UNCHANGED genFrame

\* the component after generateProof: catch (error) { noirError = error },
\* then if (noirError) ... else if (proofResult) ...
AfterGenerate ==
  /\ pc = "g_done"
  /\ ui.caller = "component"
  /\ IF genOut.status = "threw"
     THEN /\ ui' = [ui EXCEPT !.noirError = genOut.error,
                              !.outputText = "invalidSolution"]
          /\ calls' = Append(calls, "catch")
          /\ pc' = "i_fetch"
     ELSE /\ ui' = [ui EXCEPT !.outputText = "proofGenerated"]
          /\ UNCHANGED calls
          /\ pc' = "v_submit"
  /\ UNCHANGED <<encOut, altInputs, altOut, pubIn, proofIn, blobOut, genOut, vkOut>>
  /\ UNCHANGED genFrame

\* const circuitResponse = await fetch('/circuits/sudoku.json'); a response
\* that is not ok throws into the catch of the submission attempt
InvalidFetchCircuit ==
  /\ pc = "i_fetch"
  /\ calls' = Append(calls, "fetchCircuit")
  /\ \E ok \in BOOLEAN : pc' = IF ok THEN "i_loadVk" ELSE "c_end"
  /\ UNCHANGED <<encOut, altInputs, altOut, pubIn, proofIn, blobOut, genOut, vkOut, ui>>
  /\ UNCHANGED genFrame

\* const vkJson = await noirService.current.loadVk('sudoku'), then
\* encodePublicInputs(circuit, { puzzle }) and buildProofBlob on a proof of
\* zeros, whose result is not used; a throw ends the submission attempt
InvalidLoadVk ==
  /\ pc = "i_loadVk"
  /\ \E ok \in BOOLEAN : vkOut' = loadVk(ok, VkBody)
  /\ IF vkOut'.status = "threw"
     THEN /\ calls' = calls \o <<"loadVk", "fetchVk">>
          /\ pc' = "c_end"
          /\ UNCHANGED <<altInputs, altOut>>
     ELSE /\ altInputs' = puzzleOnly(inputs)
          /\ altOut' = encodePublicInputs(circuit, altInputs')
          /\ IF altOut'.returned
             THEN /\ calls' = calls \o <<"loadVk", "fetchVk", "encodePublicInputs",
                                        "buildProofBlob">>
                  /\ pc' = "i_submit"
             ELSE /\ calls' = calls \o <<"loadVk", "fetchVk", "encodePublicInputs">>
                  /\ pc' = "c_end"
  /\ UNCHANGED <<encOut, pubIn, proofIn, blobOut, genOut, ui>>
  /\ UNCHANGED genFrame

\* new Uint8Array(440 * 32)
DummyProofFields == 440
DummyProof == Zeros(DummyProofFields * FieldBytes)

\* StellarContractService.toBuffer(data): Buffer.from(data), a copy of the
\* bytes
toBuffer(data) == [i \in 1..Len(data) |-> data[i]]

\* contractClient.verify_puzzle({ ..., proof_blob: proofBuffer }) with the
\* proof of zeros, and tx.signAndSend: the contract answers false or true,
\* or one of the two calls throws into the catch of the attempt
SubmitInvalid ==
  /\ pc = "i_submit"
  /\ calls' = Append(calls, "verify_puzzle")
  /\ \E outcome \in {"correctlyRejected", "unexpectedResult", "unexpectedError"} :
       ui' = [ui EXCEPT !.submitted = "invalid",
                        !.sent = [vk_json |-> toBuffer(vkOut.bytes),
                                  public_inputs |-> toBuffer(altOut.bytes),
                                  proof_blob |-> toBuffer(DummyProof)],
                        !.outputText = outcome]
  /\ pc' = "c_end"
  /\ UNCHANGED <<encOut, altInputs, altOut, pubIn, proofIn, blobOut, genOut, vkOut>>
  /\ UNCHANGED genFrame

\* contractClient.verify_puzzle with the proof that was generated
SubmitValid ==
  /\ pc = "v_submit"
  /\ calls' = Append(calls, "verify_puzzle")
  /\ \E outcome \in {"verificationSuccessful", "verificationFailed", "verificationError"} :
       ui' = [ui EXCEPT !.submitted = "valid",
                        !.sent = [vk_json |-> toBuffer(genOut.result.vkJson),
                                  public_inputs |-> toBuffer(genOut.result.publicInputs),
                                  proof_blob |-> toBuffer(genOut.result.proof)],
                        !.outputText = outcome]
  /\ pc' = "c_end"
  /\ UNCHANGED <<encOut, altInputs, altOut, pubIn, proofIn, blobOut, genOut, vkOut>>
  /\ UNCHANGED genFrame

\* the handler ending without setIsGenerating(false)
FinishOutputOnly ==
  /\ pc = "c_end"
  /\ ui' = [ui EXCEPT !.output = ui.outputText]
  /\ pc' = "done"
  /\ UNCHANGED <<encOut, altInputs, altOut, pubIn, proofIn, blobOut, calls, genOut, vkOut>>
  /\ UNCHANGED genFrame

\* setOutput(outputText); setIsGenerating(false)
Finish ==
  /\ pc = "c_end"
  /\ ui' = [ui EXCEPT !.output = ui.outputText, !.isGenerating = FALSE]
  /\ pc' = "done"
  /\ UNCHANGED <<encOut, altInputs, altOut, pubIn, proofIn, blobOut, calls, genOut, vkOut>>
  /\ UNCHANGED genFrame

NextGen ==
  \/ ClickGenerate \/ FetchCircuit \/ NoirExecute \/ BackendGenerateProof
  \/ EncodeAndBuild \/ LoadVkInGenerate \/ AfterGenerate
  \/ InvalidFetchCircuit \/ InvalidLoadVk \/ SubmitInvalid \/ SubmitValid
  \/ Finish

SpecGen == InitGen /\ [][NextGen]_vars

\* the steps that follow an await or a click
AwaitedSteps ==
  \/ ClickGenerate \/ FetchCircuit \/ NoirExecute \/ BackendGenerateProof
  \/ LoadVkInGenerate \/ AfterGenerate
  \/ InvalidFetchCircuit \/ InvalidLoadVk \/ SubmitInvalid \/ SubmitValid
  \/ Finish

\* every await of the handler settles and the step after it is taken;
\* EncodeAndBuild is synchronous code that runs whenever it is reached: it
\* is enabled exactly when pc = "g_encode", and its weak fairness is
\* written out with that condition
SpecGenFair ==
  /\ SpecGen
  /\ WF_vars(AwaitedSteps)
  /\ ([]<>(pc # "g_encode") \/ []<><<EncodeAndBuild>>_vars)

----------------------------------------------------------------------------
(* Vocabulary of the properties *)

params == circuit.abi.parameters

isPublic(i) == params[i].visibility = "public"

publicPositions == {i \in 1..Len(params) : isPublic(i)}

\* fields a parameter contributes: `length` for an array, 1 for a scalar
elemCount(p) == IF p.type.kind = "array" THEN p.type.length ELSE 1

RECURSIVE fieldsBefore(_)
\* fields contributed by the public parameters declared before position i
fieldsBefore(i) ==
  IF i <= 1 THEN 0
  ELSE fieldsBefore(i - 1)
       + (IF isPublic(i - 1) THEN elemCount(params[i - 1]) ELSE 0)

\* the k-th 32-byte field of a byte string
chunk(bytes, k) == SubSeq(bytes, FieldBytes * (k - 1) + 1, FieldBytes * k)

\* kind and width under which the elements of parameter p are encoded
elemKind(p) == IF p.type.kind = "array" THEN p.type.type.kind ELSE p.type.kind
elemWidth(p) == IF p.type.kind = "array" THEN p.type.type.width ELSE p.type.width

\* the e-th scalar supplied for parameter p
elemValue(ins, p, e) ==
  IF p.type.kind = "array" THEN ins[p.name].elems[e] ELSE ins[p.name]

\* the field produced for element e of the public parameter at position i
producedField(i, e) == chunk(encOut.bytes, fieldsBefore(i) + e)

encoded == pc # "start" /\ pc # "raw"

----------------------------------------------------------------------------
(* C1: when encodePublicInputs succeeds, its output is the concatenation of
   the encodings of exactly the public parameters in ABI-declared order, each
   array expanded element by element in index order: the fields of the
   public parameter at position i start right after the fields of the public
   parameters declared before it, element e is the e-th of them, and there
   are no other bytes. *)
C1_PublicInAbiOrder ==
  (encoded /\ encOut.returned) =>
    /\ Len(encOut.bytes) = FieldBytes * fieldsBefore(Len(params) + 1)
    /\ \A i \in publicPositions :
         \A e \in 1..elemCount(params[i]) :
           producedField(i, e) =
             encodeField(elemValue(inputs, params[i], e), elemKind(params[i]),
                         elemWidth(params[i])).field

\* two public parameters with different encodings, one of them an array of
\* two different elements
C1_Witness ==
  /\ encoded /\ encOut.returned
  /\ Len(params) = 2 /\ isPublic(1) /\ isPublic(2)
  /\ \E i \in 1..2 :
       /\ params[i].type.kind = "array" /\ params[i].type.length = 2
       /\ inputs[params[i].name].elems[1] # inputs[params[i].name].elems[2]
  /\ chunk(encOut.bytes, 1) # chunk(encOut.bytes, 3)

----------------------------------------------------------------------------
(* C2: non-interference of private inputs.  A second call on the same ABI
   whose input map agrees with the first on every public parameter and
   carries other values on the private ones (another value, an array of the
   wrong length, no value) has the same outcome as the first and, when both
   succeed, returns the same bytes; and no field of the output encodes a
   value that was supplied only for a private parameter. *)

\* the scalars supplied for parameter name nm in input map ins
scalarsOf(ins, nm) ==
  IF ins[nm].tag = "array" THEN {ins[nm].elems[k].big : k \in 1..Len(ins[nm].elems)}
  ELSE IF ins[nm].tag = "number" THEN {ins[nm].big} ELSE {}

publicNames == {params[i].name : i \in publicPositions}

privateOnlyScalars(ins) ==
  UNION {scalarsOf(ins, nm) : nm \in privateNames(circuit)}
  \ UNION {scalarsOf(ins, nm) : nm \in publicNames}

noPrivateField(out, ins) ==
  \A k \in 1..(Len(out.bytes) \div FieldBytes) :
    decodeBE(chunk(out.bytes, k)) \notin privateOnlyScalars(ins)

C2_PrivateNonInterference ==
  /\ (pc = "reencoded") =>
       /\ altOut.status = encOut.status
       /\ altOut.returned = encOut.returned
       /\ altOut.bytes = encOut.bytes
       /\ noPrivateField(altOut, altInputs)
  /\ encoded => noPrivateField(encOut, inputs)

\* a successful call on a circuit with a private array parameter, repeated with
\* no value for it
C2_Witness ==
  /\ pc = "reencoded"
  /\ encOut.returned /\ Len(encOut.bytes) > 0
  /\ \E i \in 1..Len(params) :
       /\ ~isPublic(i) /\ params[i].type.kind = "array"
       /\ inputs[params[i].name].tag = "array"
       /\ altInputs[params[i].name].tag = "undefined"

----------------------------------------------------------------------------
(* C3: for a public integer parameter (scalar or array element) of width w
   in {8,16,32,64,128} and a value 0 <= v < 2^w, the produced field has
   bytes [0, 32 - w/8) zero and bytes [32 - w/8, 32) equal to the big-endian
   representation of v; 0x1234 at width 16 gives 30 zero bytes, 0x12, 0x34. *)

\* v < 2^w
fitsWidth(v, w) == Len(v.big) <= w \div 8

C3_IntegerRightAligned ==
  (encoded /\ encOut.returned) =>
    \A i \in publicPositions :
      (elemKind(params[i]) = "integer" /\ elemWidth(params[i]) \in Widths) =>
        \A e \in 1..elemCount(params[i]) :
          LET v == elemValue(inputs, params[i], e)
              w == elemWidth(params[i])
              f == producedField(i, e)
          IN (v.tag = "number" /\ fitsWidth(v, w)) =>
               /\ \A j \in 0..(FieldBytes - 1) :
                    f[j + 1] = IF j < FieldBytes - (w \div 8) THEN 0
                               ELSE Digit(v.big, FieldBytes - 1 - j)
               /\ (v.big = BigOfNat(4660) /\ w = 16) =>
                    f = Zeros(30) \o <<18, 52>>

\* 0x1234 encoded as a scalar of width 16
C3_Witness ==
  /\ encoded /\ encOut.returned
  /\ \E i \in publicPositions :
       /\ params[i].type.kind = "integer" /\ params[i].type.width = 16
       /\ inputs[params[i].name] = Num(BigOfNat(4660))
       /\ producedField(i, 1) = Zeros(30) \o <<18, 52>>

----------------------------------------------------------------------------
(* C4: for a public parameter of kind field (scalar or array element) and a
   value 0 <= v < 2^256, the produced field is the 32-byte big-endian unsigned
   representation of v: reading the 32 bytes big-endian gives back v. *)
C4_FieldBigEndian ==
  (encoded /\ encOut.returned) =>
    \A i \in publicPositions :
      (elemKind(params[i]) = "field") =>
        \A e \in 1..elemCount(params[i]) :
          LET v == elemValue(inputs, params[i], e)
              f == producedField(i, e)
          IN (v.tag = "number" /\ Len(v.big) <= FieldBytes) =>
               /\ Len(f) = FieldBytes
               /\ decodeBE(f) = v.big
               /\ \A j \in 0..(FieldBytes - 1) :
                    f[FieldBytes - j] = Digit(v.big, j)

\* 2^256 - 1 encoded as a scalar field
C4_Witness ==
  /\ encoded /\ encOut.returned
  /\ \E i \in publicPositions :
       /\ params[i].type.kind = "field"
       /\ inputs[params[i].name] = Num(BigMax(32))
       /\ producedField(i, 1) = [j \in 1..FieldBytes |-> 255]

----------------------------------------------------------------------------
(* C5: whenever encodePublicInputs returns, the length of its output is 32
   times the sum over the public parameters of their element counts (1 for a
   scalar, `length` for an array), so a multiple of 32; 2592 bytes for a
   single public [Field; 81] and 0 for an ABI without public parameter. *)

RECURSIVE sumCounts(_)
sumCounts(ps) ==
  IF ps = <<>> THEN 0
  ELSE (IF Head(ps).visibility = "public" THEN elemCount(Head(ps)) ELSE 0)
       + sumCounts(Tail(ps))

C5_LengthInvariant ==
  (encoded /\ encOut.returned) =>
    /\ Len(encOut.bytes) = 32 * sumCounts(params)
    /\ Len(encOut.bytes) % 32 = 0
    /\ (publicPositions = {}) => Len(encOut.bytes) = 0
    /\ (Cardinality(publicPositions) = 1
        /\ \E i \in publicPositions : params[i].type = PuzzleType)
         => Len(encOut.bytes) = 2592

\* the circuit whose only public parameter is [Field; 81], encoded
C5_Witness ==
  /\ encoded /\ encOut.returned
  /\ Cardinality(publicPositions) = 1
  /\ \E i \in publicPositions : params[i].type = PuzzleType
  /\ Len(encOut.bytes) = 2592

----------------------------------------------------------------------------
(* C6 and C7: errors of the encoder *)

\* the value supplied for the parameter at position i is not an array of the
\* declared length
badShape(i) ==
  \/ inputs[params[i].name].tag # "array"
  \/ Len(inputs[params[i].name].elems) # params[i].type.length

unsupportedKind(i) == params[i].type.kind \notin {"array", "integer", "field"}

\* every public parameter declared before position i encodes without error
earlierEncode(i) ==
  \A j \in publicPositions :
    j < i => encodeParam(params[j], inputs[params[j].name], <<>>).status = "ok"

nothingReturned(out) == ~out.returned /\ out.bytes = <<>>

(* C6 as stated: for a public array parameter of declared length L,
   encodePublicInputs fails with ShapeMismatch whenever the supplied value
   is not an array or has another length, and returns no bytes. *)
C6_AsStated ==
  encoded =>
    \A i \in publicPositions :
      (params[i].type.kind = "array" /\ badShape(i)) =>
        encOut.status \in ShapeMismatch /\ nothingReturned(encOut)

(* C6 amended: in that case encodePublicInputs fails and returns no bytes,
   not even the fields pushed before; the error is ShapeMismatch (expected
   array, or length mismatch) when every public parameter declared before
   the array encodes without error, otherwise it is the error of the first
   public parameter that fails. *)
C6_ShapeMismatch ==
  encoded =>
    \A i \in publicPositions :
      (params[i].type.kind = "array" /\ badShape(i)) =>
        /\ nothingReturned(encOut)
        /\ encOut.status # "ok"
        /\ earlierEncode(i) =>
             encOut.status = IF inputs[params[i].name].tag # "array"
                             THEN "ExpectedArray" ELSE "ArrayLengthMismatch"
        /\ ~earlierEncode(i) =>
             \E j \in publicPositions :
               /\ j < i /\ earlierEncode(j)
               /\ encOut.status =
                    encodeParam(params[j], inputs[params[j].name], <<>>).status

\* an array of the wrong length after a public field that was already encoded
C6_Witness ==
  /\ encoded
  /\ Len(params) = 2 /\ isPublic(1) /\ isPublic(2)
  /\ params[1].type.kind = "field"
  /\ params[2].type.kind = "array" /\ inputs[params[2].name].tag = "array"
  /\ badShape(2)
  /\ Len(encOut.fields) = 1
  /\ encOut.status = "ArrayLengthMismatch" /\ nothingReturned(encOut)

(* C7 as stated: encodePublicInputs fails with UnsupportedType, returning
   no bytes, whenever any public parameter has a kind other than array,
   integer or field, wherever it sits in the list. *)
C7_AsStated ==
  encoded =>
    ((\E i \in publicPositions : unsupportedKind(i)) =>
       encOut.status = "UnsupportedType" /\ nothingReturned(encOut))

(* C7 amended: in that case encodePublicInputs fails and returns no bytes,
   however many fields were pushed before; the error is UnsupportedType when
   every public parameter declared before the unsupported one encodes
   without error, otherwise it is the error of the first public parameter
   that fails. *)
C7_UnsupportedType ==
  encoded =>
    \A i \in publicPositions :
      unsupportedKind(i) =>
        /\ nothingReturned(encOut)
        /\ encOut.status # "ok"
        /\ earlierEncode(i) => encOut.status = "UnsupportedType"
        /\ ~earlierEncode(i) =>
             \E j \in publicPositions :
               /\ j < i /\ earlierEncode(j)
               /\ encOut.status =
                    encodeParam(params[j], inputs[params[j].name], <<>>).status

\* an unsupported kind after an array whose two fields were already pushed
C7_Witness ==
  /\ encoded
  /\ Len(params) = 2 /\ isPublic(1) /\ isPublic(2)
  /\ params[1].type.kind = "array" /\ unsupportedKind(2)
  /\ Len(encOut.fields) = 2
  /\ encOut.status = "UnsupportedType" /\ nothingReturned(encOut)

----------------------------------------------------------------------------
(* C8: for publicInputs of N bytes and proof of M bytes, both multiples of
   32, buildProofBlob returns a blob of 4 + N + M bytes whose first 4 bytes
   are the big-endian unsigned 32-bit encoding of N/32 + M/32; a public
   [Field; 81] of zeros followed by a public 32-bit integer 5, with an empty
   proof, gives 00 00 00 52, 2592 zero bytes, then the encoding of 5. *)

built == pc = "built"

\* big-endian reading of a 4-byte header (below 2^31 in the model)
headerValue(blob) ==
  ((blob[1] * 256 + blob[2]) * 256 + blob[3]) * 256 + blob[4]

scenarioCircuit ==
  /\ params = <<Param("puzzle", "public", PuzzleType),
                Param("count", "public", IntegerType(32))>>
  /\ inputs["puzzle"] = ZeroPuzzle
  /\ inputs["count"] = Num(BigOfNat(5))

C8_HeaderCorrect ==
  built =>
    /\ (Len(pubIn) % 32 = 0 /\ Len(proofIn) % 32 = 0) =>
         /\ Len(blobOut.proofBlob) = 4 + Len(pubIn) + Len(proofIn)
         /\ headerValue(blobOut.proofBlob)
              = (Len(pubIn) \div 32) + (Len(proofIn) \div 32)
         /\ \A k \in 1..4 : blobOut.proofBlob[k] \in Byte
    /\ (scenarioCircuit /\ proofIn = <<>>) =>
         blobOut.proofBlob = <<0, 0, 0, 82>> \o Zeros(2592) \o Zeros(31) \o <<5>>

\* the scenario of the design, assembled
C8_Witness ==
  /\ built /\ scenarioCircuit /\ proofIn = <<>>
  /\ Len(blobOut.proofBlob) = 2628
  /\ SubSeq(blobOut.proofBlob, 1, 4) = <<0, 0, 0, 82>>

----------------------------------------------------------------------------
(* C9: for every publicInputs of N bytes and proof of M bytes, the blob
   returned by buildProofBlob has blob[4 .. 4+N) = publicInputs and
   blob[4+N .. 4+N+M) = proof, byte for byte: splitting at offsets 4 and 4+N
   recovers both inputs and nothing is dropped, reordered or padded. *)
C9_BlobRoundTrip ==
  built =>
    LET n == Len(pubIn)
        m == Len(proofIn)
    IN /\ Len(blobOut.proofBlob) = 4 + n + m
       /\ SubSeq(blobOut.proofBlob, 5, 4 + n) = pubIn
       /\ SubSeq(blobOut.proofBlob, 5 + n, 4 + n + m) = proofIn

\* a blob of non-empty public inputs and a non-zero proof
C9_Witness ==
  /\ built
  /\ Len(pubIn) > 0 /\ Len(proofIn) > 0
  /\ \E k \in 1..Len(pubIn) : pubIn[k] # 0
  /\ \E k \in 1..Len(proofIn) : proofIn[k] # 0
  /\ pubIn # proofIn

----------------------------------------------------------------------------
(* C10: the proofId returned by buildProofBlob is the hex rendering of the
   32-byte keccak-256 digest of the whole returned blob, header included:
   exactly 64 characters, each in [0-9a-f], two per digest byte in digest
   order, a leading zero kept for bytes below 0x10, no 0x prefix. *)

LowerHex == {HexChars[k] : k \in 1..16}

C10_ProofIdHex ==
  built =>
    LET digest == keccak_256(blobOut.proofBlob)
        id == blobOut.proofId
    IN /\ Len(digest) = 32
       /\ Len(id) = 64
       /\ \A k \in 1..Len(id) : id[k] \in LowerHex
       /\ \A i \in 1..32 :
            /\ id[2 * i - 1] = HexChars[(digest[i] \div 16) + 1]
            /\ id[2 * i] = HexChars[(digest[i] % 16) + 1]

\* a proofId whose digest has a byte below 0x10
C10_Witness ==
  /\ built
  /\ \E i \in 1..32 :
       /\ keccak_256(blobOut.proofBlob)[i] < 16
       /\ blobOut.proofId[2 * i - 1] = "0"

----------------------------------------------------------------------------
(* C11: hash stability.  When a second buildProofBlob call is made on a
   (publicInputs, proof) pair of the same lengths as the first that differs
   from it in a byte of publicInputs or of proof, the two blobs differ, each
   proofId is the hex of the digest of the whole blob of its call, and
   whenever the keccak digests of the two blobs differ (which they do for a
   collision-free keccak-256) the two proofIds differ. *)
rebuilt == pc = "rebuilt"

C11_HashStability ==
  rebuilt =>
    /\ Len(pubIn2) = Len(pubIn) /\ Len(proofIn2) = Len(proofIn)
    /\ <<pubIn2, proofIn2>> # <<pubIn, proofIn>>
    /\ blobOut2.proofBlob # blobOut.proofBlob
    /\ keccak_256(blobOut2.proofBlob) # keccak_256(blobOut.proofBlob)
         => blobOut2.proofId # blobOut.proofId

\* the last byte of a 32-byte proof changed by one, behind 64 bytes of public
\* inputs: the digests and the two proofIds differ
C11_Witness ==
  /\ rebuilt
  /\ Len(pubIn) = 64 /\ Len(proofIn) = 32
  /\ pubIn2 = pubIn
  /\ proofIn2 = changedAt(proofIn, 32, 1)
  /\ keccak_256(blobOut2.proofBlob) # keccak_256(blobOut.proofBlob)
  /\ blobOut2.proofId # blobOut.proofId

----------------------------------------------------------------------------
(* C12: buildProofBlob raises an error and returns no blob whenever
   publicInputs.length or proof.length is not an exact multiple of 32; it
   never returns a blob whose header count was obtained by dropping a
   fractional count.  Stated of the model: a blob is returned only for
   aligned lengths. *)
C12_FailsLoudlyWhenUnaligned ==
  built => (Len(pubIn) % 32 = 0 /\ Len(proofIn) % 32 = 0)

----------------------------------------------------------------------------
(* C13: order sensitivity.  As stated: whenever the values supplied for
   two public parameters p and q differ and both calls return, the call on
   the ABI with p and q swapped returns other bytes than the call on the
   original ABI. *)
swappedPositions ==
  {i \in 1..Len(params) : circuit2.abi.parameters[i] # params[i]}

swapped == pc = "swapped"

\* the fields parameter i contributes on its own
fieldsOf(i) == encodeParam(params[i], inputs[params[i].name], <<>>)

C13_AsStated ==
  (swapped /\ encOut.returned /\ altOut.returned) =>
    \A i, j \in swappedPositions :
      (i < j /\ inputs[params[i].name] # inputs[params[j].name]) =>
        altOut.bytes # encOut.bytes

(* C13, as the code has it: the swapped call returns exactly when the
   original call does, and it returns other bytes whenever p and q encode
   to the same number of fields and their encodings differ. *)
C13_OrderSensitive ==
  swapped =>
    /\ altOut.returned = encOut.returned
    /\ encOut.returned =>
         \A i, j \in swappedPositions :
           (/\ i < j
            /\ Len(fieldsOf(i).fields) = Len(fieldsOf(j).fields)
            /\ fieldsOf(i).fields # fieldsOf(j).fields) =>
             altOut.bytes # encOut.bytes

\* two field scalars 5 and 256 swapped: both calls return, with other bytes
C13_Witness ==
  /\ swapped /\ encOut.returned /\ altOut.returned
  /\ swappedPositions = {1, 2}
  /\ params[1].type = FieldType /\ params[2].type = FieldType
  /\ inputs[params[1].name] = Num(BigOfNat(5))
  /\ inputs[params[2].name] = Num(BigOfNat(256))
  /\ altOut.bytes # encOut.bytes
  /\ chunk(altOut.bytes, 1) = chunk(encOut.bytes, 2)

----------------------------------------------------------------------------
(* C14: for a public integer parameter of width w and a value v >= 2^w,
   encodePublicInputs raises no error and produces the field whose value is
   v mod 2^w, the high-order bytes being dropped: 256 at width 8 encodes as
   32 zero bytes, as 0 does. *)

\* v mod 2^(8*k): the k low digits, without high zero digits
lowBytes(big, k) ==
  reverse(stripZeros(reverse(SubSeq(big, 1, IF k < Len(big) THEN k ELSE Len(big)))))

\* the parameter at position i is the only public one that could throw
othersEncode(i) ==
  \A j \in publicPositions :
    j # i => encodeParam(params[j], inputs[params[j].name], <<>>).status = "ok"

oversized(i, e) ==
  /\ elemKind(params[i]) = "integer" /\ elemWidth(params[i]) \in Widths
  /\ (params[i].type.kind = "array" =>
        /\ inputs[params[i].name].tag = "array"
        /\ Len(inputs[params[i].name].elems) = params[i].type.length)
  /\ e \in 1..elemCount(params[i])
  /\ elemValue(inputs, params[i], e).tag = "number"
  /\ ~fitsWidth(elemValue(inputs, params[i], e), elemWidth(params[i]))

wellFormedElems(i) ==
  params[i].type.kind = "array" =>
    \A e \in 1..Len(inputs[params[i].name].elems) :
      inputs[params[i].name].elems[e].tag = "number"

C14_SilentTruncation ==
  encoded =>
    \A i \in publicPositions :
      \A e \in 1..elemCount(params[i]) :
        oversized(i, e) =>
          /\ (othersEncode(i) /\ wellFormedElems(i)) => encOut.returned
          /\ encOut.returned =>
               LET v == elemValue(inputs, params[i], e)
                   w == elemWidth(params[i])
                   f == producedField(i, e)
               IN /\ decodeBE(f) = lowBytes(v.big, w \div 8)
                  /\ (v.big = BigOfNat(256) /\ w = 8) => f = Zeros(FieldBytes)

\* 256 encoded at width 8 as 32 zero bytes
C14_Witness ==
  /\ encoded /\ encOut.returned
  /\ \E i \in publicPositions :
       /\ params[i].type.kind = "integer" /\ params[i].type.width = 8
       /\ inputs[params[i].name] = Num(BigOfNat(256))
       /\ producedField(i, 1) = Zeros(FieldBytes)

----------------------------------------------------------------------------
(* C16: encodePublicInputs and buildProofBlob leave what they are given
   unchanged.  Every step (a call that succeeds, a call that fails, a write
   of the caller into the blob it was returned) leaves the ABI and the input
   map as they were and leaves the bytes of the caller's publicInputs and
   proof buffers as they were; and the blob a call returns is at an address
   no buffer had before the call, other than those of publicInputs and
   proof. *)
callerBuffers == {refs.pub, refs.proof} \ {0}

C16_Frame ==
  [][/\ circuit' = circuit
     /\ inputs' = inputs
     /\ \A a \in callerBuffers : heap'[a] = heap[a]
     /\ refs'.blob # refs.blob =>
          /\ refs'.blob \notin 1..Len(heap)
          /\ refs'.blob \notin {refs'.pub, refs'.proof}]_vars

\* the encoder's output and a proof were assembled, the caller wrote into
\* the returned blob, and both buffers still hold what was handed over
C16_Witness ==
  /\ pc = "written"
  /\ encOut.returned
  /\ Len(pubIn) > 0 /\ Len(proofIn) > 0
  /\ heap[refs.blob] # blobOut.proofBlob
  /\ heap[refs.pub] = pubIn
  /\ heap[refs.proof] = proofIn
  /\ blobOut = buildProofBlob(pubIn, proofIn)

----------------------------------------------------------------------------
(* Vocabulary of the generateProof flow *)

\* how many times a call was made
callCount(name) == Cardinality({k \in 1..Len(calls) : calls[k] = name})

\* the calls generateProof made: those before the component went on, into
\* its catch or to the submission of the proof
genCalls ==
  LET cut == {k \in 1..Len(calls) : calls[k] \in {"catch", "verify_puzzle"}}
  IN IF cut = {} THEN calls
     ELSE SubSeq(calls, 1, (CHOOSE k \in cut : \A j \in cut : k <= j) - 1)

lastCall(cs) == IF cs = <<>> THEN "none" ELSE cs[Len(cs)]

EncoderErrors ==
  {"ExpectedArray", "ArrayLengthMismatch", "UnsupportedType", "TypeError",
   "SyntaxError"}

\* every call generateProof makes when nothing fails
AllGenCalls ==
  <<"fetchCircuit", "execute", "prove", "encodePublicInputs", "buildProofBlob",
    "loadVk", "fetchVk">>

----------------------------------------------------------------------------
(* C17: loadVk fails whenever the VK resource is absent.  Whenever the
   response of the last loadVk call was not ok, that call threw the VK load
   error and returned no bytes, generateProof (if it was the caller) threw
   with it and returned no vkJson, and no submission followed; and every
   loadVk call made exactly one read: there are as many fetches of the VK
   as loadVk calls. *)
C17_LoadVkFails ==
  /\ callCount("fetchVk") = callCount("loadVk")
  /\ (vkOut.status # "none" /\ ~vkOut.ok) =>
       /\ vkOut.status = "threw"
       /\ vkOut.error = "VkLoad"
       /\ vkOut.bytes = <<>>
       /\ lastCall(genCalls) = "fetchVk" => genOut = threw("VkLoad")
       /\ ui.submitted = "none"

\* generateProof got as far as loadVk, whose response was not ok
C17_Witness ==
  /\ pc = "g_done"
  /\ calls = AllGenCalls
  /\ vkOut.status = "threw" /\ ~vkOut.ok
  /\ genOut.status = "threw" /\ genOut.error = "VkLoad"

----------------------------------------------------------------------------
(* C18: fail-fast ordering in generateProof.  When generateProof aborts
   with the shape error of a public array parameter, no proving call was
   made before: backend.generateProof is not among the calls. *)
C18_ShapeErrorBeforeProving ==
  (genOut.status = "threw" /\ genOut.error \in ShapeMismatch) =>
    \A k \in 1..Len(calls) : calls[k] # "prove"

----------------------------------------------------------------------------
(* C19: no partial results.  When generateProof throws, nothing is
   returned, the error is the one of the step that failed, that step is the
   last call generateProof made, no call was made twice, and the component
   that called it holds that error; when the encoder fails on the circuit
   and the inputs, generateProof throws; and when generateProof returns, the
   encoder and loadVk succeeded, every step ran once, and the result
   carries the encoder's bytes and the bytes of the VK. *)
C19_NoPartialResults ==
  /\ genOut.status = "threw" =>
       /\ genOut.result = NoResult
       /\ genOut.error # "none"
       /\ genOut.error = "CircuitLoad" => genCalls = <<"fetchCircuit">>
       /\ genOut.error \in EncoderErrors =>
            /\ encOut.status = genOut.error
            /\ lastCall(genCalls) = "encodePublicInputs"
            /\ blobOut = NoBlob
       /\ genOut.error = "VkLoad" => genCalls = AllGenCalls
       /\ (ui.caller = "component" /\ pc \notin {"g_done"}) =>
            ui.noirError = genOut.error
  /\ \A i, j \in 1..Len(genCalls) : genCalls[i] = genCalls[j] => i = j
  /\ (callCount("encodePublicInputs") > 0
      /\ ~encodePublicInputs(circuit, inputs).returned) =>
       genOut.status = "threw"
  /\ genOut.status = "returned" =>
       /\ encodePublicInputs(circuit, inputs).returned
       /\ genOut.result.publicInputs = encodePublicInputs(circuit, inputs).bytes
       /\ genOut.result.vkJson = VkBody
       /\ genOut.result.proof = proofIn
       /\ genCalls = AllGenCalls

\* the component called generateProof on a circuit whose declared puzzle
\* length is not the grid's: the encoder's error reached the component and
\* nothing was returned
C19_Witness ==
  /\ ui.caller = "component"
  /\ pc = "i_fetch"
  /\ genOut.status = "threw"
  /\ genOut.error = "ArrayLengthMismatch"
  /\ ui.noirError = "ArrayLengthMismatch"
  /\ genOut.result = NoResult
  /\ lastCall(genCalls) = "encodePublicInputs"

----------------------------------------------------------------------------
(* C20: in the component, an encoder or configuration error is never
   reported as an invalid Sudoku solution and is never followed by the
   intentionally invalid submission. *)
C20_ConfigErrorDistinguished ==
  (ui.noirError \in ConfigErrors) =>
    /\ ui.outputText # "invalidSolution"
    /\ ui.output # "invalidSolution"
    /\ ui.submitted # "invalid"

----------------------------------------------------------------------------
(* The other parts of the application.  Each has a specification of its
   own, in which the proof pipeline is at rest. *)

CoreIdle ==
  /\ circuit = NoCircuit
  /\ inputs = <<>>
  /\ pc = "idle"
  /\ encOut = NoOut
  /\ altInputs = <<>>
  /\ altOut = NoOut
  /\ pubIn = <<>>
  /\ proofIn = <<>>
  /\ blobOut = NoBlob
  /\ TwoIdle
  /\ FrameIdle
  /\ GenIdle

coreVars == <<pipeVars, twoVars, frameVars, genVars>>

----------------------------------------------------------------------------
(* main of test_real_proof.js: a valid proof is generated and submitted,
   then an invalid one (dummy data when Noir rejects the solution), and the
   process exits with a code computed from the two results.  The RPC server
   is external: each of its calls may answer anything or throw. *)

\* for (let attempts = 0; status === 'PENDING' && attempts < 4; attempts++)
MaxAttempts == 4

\* testName.includes(word) for the test names main uses
includes(testName, word) ==
  \/ word = "invalid" /\ testName = "invalid proof"
  \/ word = "dummy" /\ testName = "dummy data"

\* const isValidTest = !testName.includes('dummy') && !testName.includes('invalid')
isValidTest(testName) ==
  ~includes(testName, "dummy") /\ ~includes(testName, "invalid")

\* the value testContractWithData returns once the transaction has a status
contractResult(testName, status) ==
  IF status = "SUCCESS" THEN isValidTest(testName)
  ELSE IF status = "FAILED" THEN ~isValidTest(testName)
  ELSE FALSE

\* const exitCode = (validResult && !invalidResult) ? 0 : 1
exitCodeOf(validResult, invalidResult) ==
  IF validResult /\ ~invalidResult THEN 0 ELSE 1

\* the statuses server.getTransaction may answer
PollStatuses == {"PENDING", "NOT_FOUND", "SUCCESS", "FAILED"}

harnessFrame == <<coreVars, stellar, sudoku, pool, sub, front>>

InitHarness ==
  /\ CoreIdle
  /\ harness = [pc |-> "generate", test |-> 1, testName |-> "valid proof",
                status |-> "NOT_SENT", attempts |-> 0,
                tx |-> <<"NOT_SENT", "NOT_SENT">>,
                results |-> <<FALSE, FALSE>>,
                exitCode |-> -1, report |-> "none"]
  /\ stellar = Idle /\ sudoku = Idle /\ pool = Idle /\ sub = Idle /\ front = Idle

\* the test returned r: main goes on to the next test, or to the summary
concluded(h, r) ==
  [h EXCEPT !.results[h.test] = r,
            !.tx[h.test] = h.status,
            !.pc = IF h.test = 1 THEN "generate" ELSE "summary",
            !.test = IF h.test = 1 THEN 2 ELSE h.test,
            !.testName = IF h.test = 1 THEN "invalid proof" ELSE h.testName,
            !.status = IF h.test = 1 THEN "NOT_SENT" ELSE h.status,
            !.attempts = 0]

\* testRealProofGeneration / testInvalidProofGeneration: generateProof
\* returns or throws; only the second test catches, and goes on with null
GenerateForTest ==
  /\ harness.pc = "generate"
  /\ \E ok \in BOOLEAN :
       harness' =
         IF ok THEN [harness EXCEPT !.pc = "account"]
         ELSE IF harness.test = 1
              THEN [harness EXCEPT !.pc = "exited", !.exitCode = 1]
              ELSE [harness EXCEPT !.pc = "account", !.testName = "dummy data"]
  /\ UNCHANGED harnessFrame

\* testUltrahonkContract: await server.getAccount; on a throw return false
GetAccount ==
  /\ harness.pc = "account"
  /\ \E ok \in BOOLEAN :
       harness' =
         IF ok THEN [harness EXCEPT !.pc = "send"]
         ELSE concluded(harness, FALSE)
  /\ UNCHANGED harnessFrame

\* testContractWithData: getAccount, prepareTransaction, sendTransaction; a
\* throw of any of them, or a status other than PENDING, returns false
SendTransaction ==
  /\ harness.pc = "send"
  /\ \E r \in {"PENDING", "ERROR", "THROWN"} :
       harness' =
         IF r = "PENDING" THEN [harness EXCEPT !.pc = "poll", !.status = r]
         ELSE concluded([harness EXCEPT !.status = r], FALSE)
  /\ UNCHANGED harnessFrame

\* one turn of the loop: getTransaction answers a status, or throws and the
\* status stays PENDING
PollTransaction ==
  /\ harness.pc = "poll"
  /\ harness.status = "PENDING"
  /\ harness.attempts < MaxAttempts
  /\ \E st \in PollStatuses :
       harness' = [harness EXCEPT !.status = st, !.attempts = @ + 1]
  /\ UNCHANGED harnessFrame

\* after the loop: if (status === 'SUCCESS') ... else if 'FAILED' ... else
ConcludeTest ==
  /\ harness.pc = "poll"
  /\ ~(harness.status = "PENDING" /\ harness.attempts < MaxAttempts)
  /\ harness' = concluded(harness, contractResult(harness.testName, harness.status))
  /\ UNCHANGED harnessFrame

\* the summary of main and process.exit(exitCode)
Summarise ==
  /\ harness.pc = "summary"
  /\ LET code == exitCodeOf(harness.results[1], harness.results[2])
     IN harness' = [harness EXCEPT !.exitCode = code,
                                   !.report = IF code = 0 THEN "PASS" ELSE "FAIL",
                                   !.pc = "exited"]
  /\ UNCHANGED harnessFrame

NextHarness ==
  \/ GenerateForTest \/ GetAccount \/ SendTransaction \/ PollTransaction
  \/ ConcludeTest \/ Summarise

SpecHarness == InitHarness /\ [][NextHarness]_vars

(* C21: the harness reports PASS and exits with code 0 exactly when the
   transaction of the valid proof ended SUCCESS and the transaction of the
   invalid or dummy proof ended FAILED; otherwise it exits with code 1. *)
C21_PassIffAcceptedAndRejected ==
  harness.pc = "exited" =>
    /\ harness.exitCode \in {0, 1}
    /\ (harness.exitCode = 0 /\ harness.report = "PASS")
         <=> (harness.tx[1] = "SUCCESS" /\ harness.tx[2] = "FAILED")

----------------------------------------------------------------------------
(* C22: whenever the component submits a proof, the proof_blob argument is
   the blob buildProofBlob assembles for that run (header, public inputs,
   proof) and the VK is the one loadVk returned; the proof bytes alone are
   never sent as the blob. *)

\* the proof of the run that was submitted
submittedProof == IF ui.submitted = "valid" THEN genOut.result.proof ELSE DummyProof

\* the blob buildProofBlob assembles from what was submitted
submittedBlob ==
  assembleBlob(setUint32BE(totalFields32(ui.sent.public_inputs, submittedProof)),
               ui.sent.public_inputs, submittedProof)

C22_BlobIsSubmitted ==
  ui.submitted # "none" =>
    /\ ui.sent.vk_json = vkOut.bytes
    /\ ui.sent.proof_blob = submittedBlob
    /\ ui.submitted = "valid" => ui.sent.proof_blob = genOut.result.proofBlob
    /\ ui.sent.proof_blob # submittedProof

----------------------------------------------------------------------------
(* StellarService.verifyProof (frontend): the verify_proof transaction is
   assembled, signed and sent, then is_verified is queried; the whole body
   is inside one try/catch.  The contract client is external: each call may
   return or throw. *)

NoThrow == [kind |-> "none", message |-> ""]

\* what a step may throw: an Error with a message, an Error without one, a
\* string
ThrownValues ==
  {[kind |-> "Error", message |-> "simulation failed"],
   [kind |-> "Error", message |-> ""],
   [kind |-> "string", message |-> "rejected"]}

\* String(error)
stringOf(thrown) ==
  IF thrown.kind = "string" THEN thrown.message
  ELSE IF thrown.message = "" THEN "Error" ELSE "Error: " \o thrown.message

\* error.message || String(error): a string has no message, an empty
\* message is falsy
errorText(thrown) ==
  IF thrown.kind = "Error" /\ thrown.message # "" THEN thrown.message
  ELSE stringOf(thrown)

\* what isVerifiedTx.result may hold
QueryResults == {"true", "false", "undefined", "1", "object"}

\* any truthy result counted as verified
isVerifiedTruthy(r) == r \notin {"false", "undefined"}

\* isVerifiedTx.result === true
isVerifiedOf(r) == r = "true"

NoVerification ==
  [success |-> FALSE, proofId |-> "none", txHash |-> "none", isVerified |-> FALSE,
   cpuInstructions |-> "undefined", fee |-> "undefined", error |-> "none"]

\* the catch of verifyProof
caught(proofId, thrown) ==
  [NoVerification EXCEPT !.proofId = proofId, !.error = errorText(thrown)]

stellarFrame == <<coreVars, harness, sudoku, pool, sub, front>>

InitStellar ==
  /\ CoreIdle
  /\ \E id \in {"ab12", "00ff", ""}, sim \in {"none", "instructions"} :
       stellar = [pc |-> "assemble", proofId |-> id, simulation |-> sim,
                  steps |-> <<>>, raised |-> NoThrow, query |-> "none",
                  txHash |-> "none", fee |-> "undefined",
                  result |-> NoVerification, shown |-> "none"]
  /\ harness = Idle /\ sudoku = Idle /\ pool = Idle /\ sub = Idle /\ front = Idle

\* const tx = await this.client.verify_proof({ vk_json, proof_blob })
AssembleVerifyProof ==
  /\ stellar.pc = "assemble"
  /\ \/ stellar' = [stellar EXCEPT !.pc = "sign",
                                   !.steps = Append(@, "verify_proof")]
     \/ \E t \in ThrownValues :
          stellar' = [stellar EXCEPT !.pc = "returned",
                                     !.steps = Append(@, "verify_proof"),
                                     !.raised = t,
                                     !.result = caught(stellar.proofId, t)]
  /\ UNCHANGED stellarFrame

\* const result = await tx.signAndSend({ signTransaction }); the hash and,
\* for a SUCCESS response, the fee are read from the result
SignAndSend ==
  /\ stellar.pc = "sign"
  /\ \/ \E h \in {"", "hash1"}, st \in {"SUCCESS", "FAILED", "none"} :
          stellar' = [stellar EXCEPT !.pc = "query",
                                     !.steps = Append(@, "signAndSend"),
                                     !.txHash = h,
                                     !.fee = IF st = "SUCCESS" THEN "100" ELSE "undefined"]
     \/ \E t \in ThrownValues :
          stellar' = [stellar EXCEPT !.pc = "returned",
                                     !.steps = Append(@, "signAndSend"),
                                     !.raised = t,
                                     !.result = caught(stellar.proofId, t)]
  /\ UNCHANGED stellarFrame

\* const isVerifiedTx = await this.client.is_verified({ proof_id }), then
\* the return
QueryIsVerified ==
  /\ stellar.pc = "query"
  /\ \/ \E r \in QueryResults :
          stellar' =
            [stellar EXCEPT
               !.pc = "returned",
               !.steps = Append(@, "is_verified"),
               !.query = r,
               !.result = [success |-> TRUE, proofId |-> stellar.proofId,
                           txHash |-> stellar.txHash,
                           isVerified |-> isVerifiedOf(r),
                           cpuInstructions |->
                             IF stellar.simulation = "instructions" THEN "1000"
                             ELSE "undefined",
                           fee |-> stellar.fee, error |-> "none"]]
     \/ \E t \in ThrownValues :
          stellar' = [stellar EXCEPT !.pc = "returned",
                                     !.steps = Append(@, "is_verified"),
                                     !.raised = t,
                                     !.result = caught(stellar.proofId, t)]
  /\ UNCHANGED stellarFrame

\* main.ts: the result is shown
ShowVerification ==
  /\ stellar.pc = "returned"
  /\ stellar' =
       [stellar EXCEPT
          !.pc = "shown",
          !.shown = IF ~stellar.result.success THEN "failed"
                    ELSE IF stellar.result.isVerified THEN "VERIFIED"
                    ELSE "NOT VERIFIED"]
  /\ UNCHANGED stellarFrame

NextStellar ==
  AssembleVerifyProof \/ SignAndSend \/ QueryIsVerified \/ ShowVerification

SpecStellar == InitStellar /\ [][NextStellar]_vars

(* C23: verifyProof returns a result whatever happens and follows a fixed
   order.  is_verified is queried only as the third step, after
   verify_proof and signAndSend returned without raising; the result has
   isVerified = true only if the query returned exactly true; and when a
   step raised, is_verified was not queried after it and the result is
   success = false, isVerified = false, the text of the error, and the
   given proofId. *)
C23_VerifyProofOrder ==
  /\ (\E k \in 1..Len(stellar.steps) : stellar.steps[k] = "is_verified") =>
       stellar.steps = <<"verify_proof", "signAndSend", "is_verified">>
  /\ stellar.pc \in {"returned", "shown"} =>
       /\ stellar.result.proofId = stellar.proofId
       /\ stellar.result.isVerified =>
            (stellar.query = "true" /\ stellar.result.success
             /\ stellar.raised = NoThrow)
       /\ stellar.raised # NoThrow =>
            /\ stellar.result.success = FALSE
            /\ stellar.result.isVerified = FALSE
            /\ stellar.result.error = errorText(stellar.raised)
            /\ stellar.result.error # ""
            /\ stellar.query = "none"
       /\ stellar.raised = NoThrow =>
            /\ stellar.result.success
            /\ stellar.steps = <<"verify_proof", "signAndSend", "is_verified">>
            /\ stellar.result.isVerified = (stellar.query = "true")

\* the query answered a truthy value that is not true: not verified
C23_Witness ==
  /\ stellar.pc = "returned"
  /\ stellar.raised = NoThrow
  /\ stellar.query = "1"
  /\ stellar.result.success /\ ~stellar.result.isVerified

----------------------------------------------------------------------------
(* sudokuGenerator.ts: generateRandomSudoku.  Math.random is the input: the
   solution generateSolution returns and the order of the shuffled indices
   are drawn from small sets of complete grids and of permutations of
   0..80.  Grids are sequences of 81 numbers; cell i of the code is element
   i + 1. *)

minGivens == 17

EXAMPLE_PUZZLE ==
  <<5, 3, 0, 0, 7, 0, 0, 0, 0, 6, 0, 0, 1, 9, 5, 0, 0, 0, 0, 9, 8, 0, 0, 0, 0, 6, 0,
    8, 0, 0, 0, 6, 0, 0, 0, 3, 4, 0, 0, 8, 0, 3, 0, 0, 1, 7, 0, 0, 0, 2, 0, 0, 0, 6,
    0, 6, 0, 0, 0, 0, 2, 8, 0, 0, 0, 0, 4, 1, 9, 0, 0, 5, 0, 0, 0, 0, 8, 0, 0, 7, 9>>

EXAMPLE_SOLUTION ==
  <<5, 3, 4, 6, 7, 8, 9, 1, 2, 6, 7, 2, 1, 9, 5, 3, 4, 8, 1, 9, 8, 3, 4, 2, 5, 6, 7,
    8, 5, 9, 7, 6, 1, 4, 2, 3, 4, 2, 6, 8, 5, 3, 7, 9, 1, 7, 1, 3, 9, 2, 4, 8, 5, 6,
    9, 6, 1, 5, 3, 7, 2, 8, 4, 2, 8, 7, 4, 1, 9, 6, 3, 5, 3, 4, 5, 2, 8, 6, 1, 7, 9>>

\* complete grids generateSolution may return: the example's, and the
\* shifted-rows grid
Solutions ==
  {EXAMPLE_SOLUTION,
   [i \in 1..SudokuCells |->
      ((3 * (((i - 1) \div 9) % 3) + ((i - 1) \div 27) + ((i - 1) % 9)) % 9) + 1]}

\* orders the Fisher-Yates loop may leave in indices
Shuffles ==
  {[i \in 1..SudokuCells |-> (a * (i - 1) + b) % SudokuCells] :
     a \in {1, 2, 80}, b \in {0, 40}}

\* Math.max(difficulty, minGivens) without the floor of minGivens
targetGivensUnclamped(difficulty) == difficulty

\* const targetGivens = Math.max(difficulty, minGivens)
targetGivens(difficulty) ==
  IF difficulty > minGivens THEN difficulty ELSE minGivens

\* for (let i = 0; i < indices.length && removed < cellsToRemove; i++)
RECURSIVE removeCells(_, _, _, _, _)
removeCells(puzzle, indices, i, removed, cellsToRemove) ==
  IF i < Len(indices) /\ removed < cellsToRemove
  THEN removeCells([puzzle EXCEPT ![indices[i + 1] + 1] = 0], indices,
                   i + 1, removed + 1, cellsToRemove)
  ELSE puzzle

\* generatePuzzle works on a copy of the solution
generatePuzzle(solution, difficulty, indices) ==
  removeCells(solution, indices, 0, 0, SudokuCells - targetGivens(difficulty))

generateRandomSudoku(difficulty, solution, indices) ==
  [puzzle |-> generatePuzzle(solution, difficulty, indices),
   solution |-> solution]

Difficulties == {-5, 0, 1, 16, 17, 18, 30, 60, 80, 81, 82, 200}

InitPuzzle ==
  /\ CoreIdle
  /\ \E d \in Difficulties :
       sudoku = [pc |-> "call", difficulty |-> d, generated |-> <<>>,
                 result |-> [puzzle |-> <<>>, solution |-> <<>>]]
  /\ harness = Idle /\ stellar = Idle /\ pool = Idle /\ sub = Idle /\ front = Idle

GenerateRandomSudoku ==
  /\ sudoku.pc = "call"
  /\ \E sol \in Solutions, ind \in Shuffles :
       sudoku' = [sudoku EXCEPT
                    !.pc = "generated",
                    !.generated = sol,
                    !.result = generateRandomSudoku(sudoku.difficulty, sol, ind)]
  /\ UNCHANGED <<coreVars, harness, stellar, pool, sub, front>>

NextPuzzle == GenerateRandomSudoku

SpecPuzzle == InitPuzzle /\ [][NextPuzzle]_vars

\* puzzle.filter(v => v > 0).length
givens(puzzle) == Cardinality({i \in 1..Len(puzzle) : puzzle[i] > 0})

(* C24: generateRandomSudoku(difficulty) returns a puzzle with at least 17
   givens, exactly max(difficulty, 17) of them when that is at most 81;
   every given equals the solution's cell, every other cell is 0, and the
   solution returned is the complete grid that was generated. *)
C24_GivensOfPuzzle ==
  sudoku.pc = "generated" =>
    LET r == sudoku.result
        d == sudoku.difficulty
        want == IF d > 17 THEN d ELSE 17
    IN  /\ Len(r.puzzle) = 81 /\ Len(r.solution) = 81
        /\ givens(r.puzzle) >= 17
        /\ want <= 81 => givens(r.puzzle) = want
        /\ \A i \in 1..81 : r.puzzle[i] \in {0, r.solution[i]}
        /\ r.solution = sudoku.generated
        /\ \A i \in 1..81 : r.solution[i] \in 1..9

\* a difficulty below the floor: 17 givens are left
C24_Witness ==
  /\ sudoku.pc = "generated"
  /\ sudoku.difficulty = 1
  /\ givens(sudoku.result.puzzle) = 17

----------------------------------------------------------------------------
(* C25: every result generateProof returns is consistent: the blob is 4
   bytes longer than the public inputs and the proof together, holds the
   returned public inputs from offset 4 and the returned proof after them,
   the proof is the backend's, the proof id is the hex keccak-256 of the
   returned blob, and the public inputs are the encoding of the inputs
   the witness engine was given. *)
C25_ResultConsistent ==
  genOut.status = "returned" =>
    LET r == genOut.result
        n == Len(r.publicInputs)
    IN  /\ Len(r.proofBlob) = 4 + n + Len(r.proof)
        /\ SubSeq(r.proofBlob, 5, 4 + n) = r.publicInputs
        /\ SubSeq(r.proofBlob, 5 + n, Len(r.proofBlob)) = r.proof
        /\ r.proof = proofIn
        /\ r.proofId = hexOf(keccak_256(r.proofBlob))
        /\ encodePublicInputs(circuit, inputs).returned
        /\ r.publicInputs = encodePublicInputs(circuit, inputs).bytes
        /\ \E k \in 1..Len(calls) : calls[k] = "execute"

\* a result with public inputs and a proof, both non-empty
C25_Witness ==
  /\ genOut.status = "returned"
  /\ Len(genOut.result.publicInputs) >= FieldBytes
  /\ Len(genOut.result.proof) >= FieldBytes
  /\ \E k \in 1..Len(genOut.result.publicInputs) : genOut.result.publicInputs[k] # 0

----------------------------------------------------------------------------
(* The grid of the Sudoku component: grid, givenIndices and difficulty are
   React state; each handler runs to its end on the state of the last
   render.  Texts typed into a cell are sequences of characters. *)

\* what e.target.value may hold
CellTexts == {<<>>, <<"5">>, <<"0">>, <<"a">>, <<"1", "2">>, <<"a", "7">>, <<"1", "0">>}

\* the cells the model edits: a given and a free cell of the example, and
\* the centre
EditCells == {0, 2, 40}

\* value.replace(/[^1-9]/g, '')
RECURSIVE replaceNon1to9(_)
replaceNon1to9(value) ==
  IF value = <<>> THEN <<>>
  ELSE IF Head(value) \in {"1", "2", "3", "4", "5", "6", "7", "8", "9"}
       THEN <<Head(value)>> \o replaceNon1to9(Tail(value))
       ELSE replaceNon1to9(Tail(value))

\* parseInt of one character of 1-9
parseInt(numValue) ==
  CHOOSE d \in 1..9 : <<"1", "2", "3", "4", "5", "6", "7", "8", "9">>[d] = numValue[1]

\* updateCell without the check of givenIndices
updateCellUnguarded(grid, givenIndices, index, value) ==
  [grid EXCEPT ![index + 1] = value]

\* if (givenIndices.has(index)) return; newGrid[index] = value
updateCell(grid, givenIndices, index, value) ==
  IF index \in givenIndices THEN grid ELSE [grid EXCEPT ![index + 1] = value]

\* setGivenCells: the indices of the non-zero cells and a grid holding them
setGivenCells(puzzle) ==
  [givenIndices |-> {i \in 0..(Len(puzzle) - 1) : puzzle[i + 1] > 0},
   grid |-> [i \in 1..SudokuCells |->
               IF i <= Len(puzzle) /\ puzzle[i] > 0 THEN puzzle[i] ELSE 0]]

collectSudokuGridData(grid, givenIndices) ==
  [puzzle |-> [i \in 1..Len(grid) |-> IF (i - 1) \in givenIndices THEN grid[i] ELSE 0],
   solution |-> grid]

NotCollected == [puzzle |-> <<>>, solution |-> <<>>]

\* the shuffled orders drawn for the games of the component
GameShuffles == {ind \in Shuffles : ind[2] \in {1, 39}}

\* the useState initial values; puzzle is the last argument of setGivenCells
InitGrid ==
  /\ CoreIdle
  /\ sudoku = [pc |-> "render", grid |-> Zeros(SudokuCells), givenIndices |-> {},
               difficulty |-> 30, puzzle |-> <<>>, collected |-> NotCollected]
  /\ harness = Idle /\ stellar = Idle /\ pool = Idle /\ sub = Idle /\ front = Idle

\* the mount effect and the Load Example button
LoadExample ==
  /\ sudoku.pc = "render"
  /\ sudoku' = [sudoku EXCEPT
                  !.givenIndices = setGivenCells(EXAMPLE_PUZZLE).givenIndices,
                  !.grid = EXAMPLE_SOLUTION,
                  !.difficulty = givens(EXAMPLE_PUZZLE),
                  !.puzzle = EXAMPLE_PUZZLE,
                  !.collected = NotCollected]
  /\ UNCHANGED <<coreVars, harness, stellar, pool, sub, front>>

\* generateRandomGame with the difficulty of the last render
GenerateRandomGame ==
  /\ sudoku.pc = "render"
  /\ \E sol \in Solutions, ind \in GameShuffles :
       LET game == generateRandomSudoku(sudoku.difficulty, sol, ind) IN
       sudoku' = [sudoku EXCEPT
                    !.givenIndices = setGivenCells(game.puzzle).givenIndices,
                    !.grid = setGivenCells(game.puzzle).grid,
                    !.puzzle = game.puzzle,
                    !.collected = NotCollected]
  /\ UNCHANGED <<coreVars, harness, stellar, pool, sub, front>>

\* the slider: setDifficulty(value); generateRandomGame(), the latter
\* still closed over the difficulty of the last render
SliderChange ==
  /\ sudoku.pc = "render"
  /\ \E value \in {17, 60}, sol \in Solutions, ind \in GameShuffles :
       LET game == generateRandomSudoku(sudoku.difficulty, sol, ind) IN
       sudoku' = [sudoku EXCEPT
                    !.difficulty = value,
                    !.givenIndices = setGivenCells(game.puzzle).givenIndices,
                    !.grid = setGivenCells(game.puzzle).grid,
                    !.puzzle = game.puzzle,
                    !.collected = NotCollected]
  /\ UNCHANGED <<coreVars, harness, stellar, pool, sub, front>>

HandleCellChange ==
  /\ sudoku.pc = "render"
  /\ \E index \in EditCells, value \in CellTexts :
       LET numValue == replaceNon1to9(value) IN
       sudoku' =
         [sudoku EXCEPT
            !.grid = IF Len(numValue) > 1 THEN @
                     ELSE updateCell(@, sudoku.givenIndices, index,
                                     IF numValue # <<>> THEN parseInt(numValue) ELSE 0),
            !.collected = NotCollected]
  /\ UNCHANGED <<coreVars, harness, stellar, pool, sub, front>>

ResetPuzzle ==
  /\ sudoku.pc = "render"
  /\ sudoku' = [sudoku EXCEPT
                  !.grid = [i \in 1..Len(@) |->
                              IF (i - 1) \in sudoku.givenIndices THEN @[i] ELSE 0],
                  !.collected = NotCollected]
  /\ UNCHANGED <<coreVars, harness, stellar, pool, sub, front>>

\* const { puzzle, solution } = collectSudokuGridData() in generateProof
CollectSudokuGridData ==
  /\ sudoku.pc = "render"
  /\ sudoku' = [sudoku EXCEPT
                  !.collected = collectSudokuGridData(sudoku.grid, sudoku.givenIndices)]
  /\ UNCHANGED <<coreVars, harness, stellar, pool, sub, front>>

NextGrid ==
  \/ LoadExample
  \/ GenerateRandomGame
  \/ SliderChange
  \/ HandleCellChange
  \/ ResetPuzzle
  \/ CollectSudokuGridData

SpecGrid == InitGrid /\ [][NextGrid]_vars

(* C26: once setGivenCells(puzzle) has run, whatever cell changes and
   resets follow, every given index holds the puzzle's value in the grid,
   every grid value is within 0..9, and what collectSudokuGridData returns
   is a puzzle equal to the returned solution on the given indices and 0
   elsewhere, which is the puzzle that was set. *)
C26_GivenCellsImmutable ==
  sudoku.puzzle # <<>> =>
    /\ sudoku.givenIndices = {i \in 0..80 : sudoku.puzzle[i + 1] > 0}
    /\ \A i \in sudoku.givenIndices : sudoku.grid[i + 1] = sudoku.puzzle[i + 1]
    /\ \A i \in 1..81 : sudoku.grid[i] \in 0..9
    /\ sudoku.collected # NotCollected =>
         /\ sudoku.collected.solution = sudoku.grid
         /\ \A i \in 0..80 :
              sudoku.collected.puzzle[i + 1] =
                IF i \in sudoku.givenIndices THEN sudoku.collected.solution[i + 1] ELSE 0
         /\ sudoku.collected.puzzle = sudoku.puzzle

\* a free cell of the example was changed and the data collected: the
\* puzzle collected is still the example puzzle
C26_Witness ==
  /\ sudoku.puzzle = EXAMPLE_PUZZLE
  /\ sudoku.grid[3] = 7
  /\ sudoku.grid[41] = 0
  /\ sudoku.collected # NotCollected

----------------------------------------------------------------------------
\* the guards of the handler: no wallet, an empty cell, a cell outside 1..9
stoppedByGuard ==
  /\ ui.caller = "component"
  /\ \/ ~ui.wallet
     \/ emptyCells(inputs["solution"]) > 0
     \/ invalidSolution(inputs["solution"])

FinalOutputs ==
  {"invalidSolution", "proofGenerated", "correctlyRejected", "unexpectedResult",
   "unexpectedError", "verificationSuccessful", "verificationFailed",
   "verificationError"}

(* C27: a run of the handler that set isGenerating leads to a state where
   it is false again, the handler has ended and its final output is
   written, whatever succeeded or threw on the way; and in a run stopped
   by a guard isGenerating is never true and no call is made. *)
C27_GeneratingEnds ==
  /\ [](stoppedByGuard => (~ui.isGenerating /\ calls = <<>> /\ ui.submitted = "none"))
  /\ (ui.isGenerating ~>
        (~ui.isGenerating /\ pc = "done" /\ ui.output \in FinalOutputs))

\* the handler ended after the submission of the invalid proof threw
C27_Witness ==
  /\ pc = "done"
  /\ ~ui.isGenerating
  /\ ui.output = "unexpectedError"
  /\ ui.noirError # "none"

----------------------------------------------------------------------------
(* PrizePoolProvider: loadPrizePot sets isLoading, awaits the prize_pot
   simulation and clears isLoading in its finally.  It is called by the
   mount effect of the prize pool display, by the delayed refreshes of the
   Sudoku component and after add_funds; a call made while another one is
   awaiting runs alongside it.  inFlight lists the callers whose request
   is awaiting, oldest first. *)

MaxInFlight == 3

Callers == {"mount", "refresh", "add_funds"}

\* tx.result of the simulation: a balance, or nothing
PrizePotResults == {"0", "100000000", "undefined"}

InitPool ==
  /\ CoreIdle
  /\ \E connected \in BOOLEAN :
       pool = [pc |-> "rendered", address |-> connected, isLoading |-> FALSE,
               balance |-> "null", inFlight |-> <<>>]
  /\ harness = Idle /\ stellar = Idle /\ sudoku = Idle /\ sub = Idle /\ front = Idle

\* loadPrizePot up to its await
LoadPrizePot ==
  /\ Len(pool.inFlight) < MaxInFlight
  /\ \E caller \in Callers :
       IF ~pool.address
       THEN pool' = [pool EXCEPT !.balance = "null"]
       ELSE pool' = [pool EXCEPT !.isLoading = TRUE,
                                 !.inFlight = Append(@, caller)]
  /\ UNCHANGED <<coreVars, harness, stellar, sudoku, sub, front>>

\* one awaiting request settles: the simulation returns or throws, the
\* balance is set, and the finally clears isLoading
PrizePotSettles ==
  /\ \E k \in 1..Len(pool.inFlight), outcome \in PrizePotResults \cup {"threw"} :
       pool' = [pool EXCEPT
                  !.balance = IF outcome \in {"undefined", "threw"} THEN "0" ELSE outcome,
                  !.isLoading = FALSE,
                  !.inFlight = SubSeq(@, 1, k - 1) \o SubSeq(@, k + 1, Len(@))]
  /\ UNCHANGED <<coreVars, harness, stellar, sudoku, sub, front>>

\* the wallet connects or disconnects; the requests in flight go on
WalletChanges ==
  /\ pool' = [pool EXCEPT !.address = ~@]
  /\ UNCHANGED <<coreVars, harness, stellar, sudoku, sub, front>>

NextPool == LoadPrizePot \/ PrizePotSettles \/ WalletChanges

SpecPool == InitPool /\ [][NextPool]_vars

(* C28: isLoading is true in every state in which a loadPrizePot request
   is in flight, overlapping calls included, and false once none is. *)
C28_LoadingWhileInFlight ==
  pool.isLoading <=> (pool.inFlight # <<>>)

----------------------------------------------------------------------------
(* useSubscription: the effect starts pollEvents, which awaits the RPC
   server, hands the events to onEvent and, in its finally, schedules the
   next poll unless stop is set; the cleanup of the effect clears the timer
   and sets stop.  The cleanup may run at any await.  polls counts the
   invocations of pollEvents and delivered the calls of onEvent. *)

MaxPolls == 3

\* pollEvents up to its first await: the latest ledger is asked for when
\* paging[id].lastLedgerStart is not set
firstAwait(lastLedgerStart) == IF lastLedgerStart = 0 THEN "getLatestLedger" ELSE "getEvents"

\* finally { if (!stop) timeoutId = setTimeout(...) }
finallyOf(s) ==
  IF ~s.stop THEN [s EXCEPT !.pc = "scheduled", !.timer = TRUE]
  ELSE [s EXCEPT !.pc = "ended"]

InitSub ==
  /\ CoreIdle
  /\ \E ledger \in {0, 100}, token \in {"undefined", "cursor1"} :
       sub = [pc |-> firstAwait(ledger), stop |-> FALSE, timer |-> FALSE,
              lastLedgerStart |-> ledger, pagingToken |-> token,
              polls |-> 1, delivered |-> 0]
  /\ harness = Idle /\ stellar = Idle /\ sudoku = Idle /\ pool = Idle /\ front = Idle

\* await server.getLatestLedger()
GetLatestLedger ==
  /\ sub.pc = "getLatestLedger"
  /\ \/ \E sequence \in {100, 200} :
          sub' = [sub EXCEPT !.lastLedgerStart = sequence, !.pc = "getEvents"]
     \/ sub' = finallyOf(sub)
  /\ UNCHANGED <<coreVars, harness, stellar, sudoku, pool, front>>

\* await server.getEvents(...), the events handed to onEvent one by one,
\* the cursor kept, then the finally
GetEvents ==
  /\ sub.pc = "getEvents"
  /\ \/ \E latestLedger \in {0, 150}, events \in 0..2, cursor \in {"undefined", "cursor2"} :
          sub' = finallyOf(
                   [sub EXCEPT
                      !.lastLedgerStart = IF latestLedger # 0 THEN latestLedger ELSE @,
                      !.delivered = @ + events,
                      !.pagingToken = IF events > 0 THEN cursor ELSE "undefined"])
     \/ sub' = finallyOf(sub)
  /\ UNCHANGED <<coreVars, harness, stellar, sudoku, pool, front>>

\* the timer fires: pollEvents starts again
TimerFires ==
  /\ sub.pc = "scheduled"
  /\ sub.timer
  /\ sub.polls < MaxPolls
  /\ sub' = [sub EXCEPT !.timer = FALSE, !.polls = @ + 1,
                        !.pc = firstAwait(sub.lastLedgerStart)]
  /\ UNCHANGED <<coreVars, harness, stellar, sudoku, pool, front>>

\* the cleanup of the effect: clearTimeout(timeoutId); stop = true
Cleanup ==
  /\ ~sub.stop
  /\ sub' = [sub EXCEPT !.timer = FALSE, !.stop = TRUE,
                        !.pc = IF @ = "scheduled" THEN "ended" ELSE @]
  /\ UNCHANGED <<coreVars, harness, stellar, sudoku, pool, front>>

NextSub == GetLatestLedger \/ GetEvents \/ TimerFires \/ Cleanup

SpecSub == InitSub /\ [][NextSub]_vars

(* C29: once the cleanup has run, no poll is scheduled or started and
   onEvent is not called again, also when the cleanup ran while a poll was
   awaiting the RPC response. *)
C29_StoppedAfterCleanup ==
  [][sub.stop =>
       /\ sub'.delivered = sub.delivered
       /\ sub'.polls = sub.polls
       /\ ~sub'.timer]_vars

----------------------------------------------------------------------------
(* The frontend variant of NoirService.generateProof encodes the public
   inputs inline: one field per public parameter. *)

\* the parameter handed to the encoder of the service
inlineParamByElements(p, inputValue, fields) == encodeParam(p, inputValue, fields)

\* the body of publicParams.forEach for one parameter: the debug line calls
\* inputValue.toString(16), a TypeError for a missing input; then a zeroed
\* field is filled by the integer loop, by the field loop, or not at all
inlineParam(p, inputValue, fields) ==
  IF inputValue.tag = "undefined" THEN [status |-> "TypeError", fields |-> fields]
  ELSE IF p.type.kind = "integer" \/ p.type.kind = "field"
       THEN LET conv == BigIntOf(inputValue) IN
            IF conv.status # "ok" THEN [status |-> conv.status, fields |-> fields]
            ELSE [status |-> "ok",
                  fields |-> Append(fields,
                               IF p.type.kind = "integer"
                               THEN integerLoop(conv.big, p.type.width)
                               ELSE fieldLoop(conv.big))]
       ELSE [status |-> "ok", fields |-> Append(fields, Zeros(FieldBytes))]

RECURSIVE inlineParams(_, _, _, _)
inlineParams(publicParams, ins, k, fields) ==
  IF k > Len(publicParams) THEN [status |-> "ok", fields |-> fields]
  ELSE LET r == inlineParam(publicParams[k], ins[publicParams[k].name], fields) IN
       IF r.status # "ok" THEN r
       ELSE inlineParams(publicParams, ins, k + 1, r.fields)

\* publicInputsBytes of the frontend variant, or the error thrown
encodeInline(c, ins) ==
  LET r == inlineParams(publicParamsOf(c), ins, 1, <<>>) IN
  IF r.status = "ok"
  THEN [status |-> "ok", returned |-> TRUE, bytes |-> concatFields(r.fields),
        fields |-> r.fields]
  ELSE [status |-> r.status, returned |-> FALSE, bytes |-> <<>>,
        fields |-> r.fields]

InitFront ==
  /\ CoreIdle
  /\ \E cs \in FrameCases \cup SwapCases :
       front = [pc |-> "encode", circuit |-> [abi |-> [parameters |-> cs.params]],
                inputs |-> cs.ins, out |-> NoOut]
  /\ harness = Idle /\ stellar = Idle /\ sudoku = Idle /\ pool = Idle /\ sub = Idle

EncodeInline ==
  /\ front.pc = "encode"
  /\ front' = [front EXCEPT !.pc = "encoded",
                            !.out = encodeInline(front.circuit, front.inputs)]
  /\ UNCHANGED <<coreVars, harness, stellar, sudoku, pool, sub>>

NextFront == EncodeInline

SpecFront == InitFront /\ [][NextFront]_vars

(* C30: the inline encoder of the frontend variant emits one 32-byte
   field per public parameter whatever its kind: it raises no
   UnsupportedType and no shape error; when every input is present and
   every integer or field input converts, it returns, with 32 bytes per
   public parameter, and the field of a parameter that is neither an
   integer nor a field (an array, say) is all zero. *)
C30_OneFieldPerParameter ==
  front.pc = "encoded" =>
    LET pub == publicParamsOf(front.circuit)
        val(k) == front.inputs[pub[k].name]
        scalar(k) == pub[k].type.kind \in {"integer", "field"}
    IN  /\ front.out.status \notin ({"UnsupportedType"} \cup ShapeMismatch)
        /\ (\A k \in 1..Len(pub) :
              /\ val(k).tag # "undefined"
              /\ scalar(k) => BigIntOf(val(k)).status = "ok")
             => front.out.returned
        /\ front.out.returned =>
             /\ Len(front.out.bytes) = 32 * Len(pub)
             /\ \A k \in 1..Len(pub) :
                  ~scalar(k) =>
                    SubSeq(front.out.bytes, 32 * (k - 1) + 1, 32 * k) = Zeros(32)

\* a public array of two elements: one field of zeros, 32 bytes and not 64
C30_Witness ==
  /\ front.pc = "encoded"
  /\ front.out.returned
  /\ \E k \in 1..Len(publicParamsOf(front.circuit)) :
       LET p == publicParamsOf(front.circuit)[k] IN
       /\ p.type.kind = "array"
       /\ Len(front.inputs[p.name].elems) = 2
       /\ \E e \in 1..2 : front.inputs[p.name].elems[e].big # <<>>
  /\ Len(front.out.bytes) = 32 * Len(publicParamsOf(front.circuit))

====
